---------------------------- MODULE Spec2Model ----------------------------
(***************************************************************************)
(* SnapScribe: image preprocessing (core/preprocessing.py) and the         *)
(* Streamlit orchestrator (app.py).                                        *)
(*                                                                         *)
(* Images are symbolic values: the mode, the channel order of the stored   *)
(* data, the identity of the source pixels and the sequence of pixel       *)
(* operations applied to them.  Two images are equal exactly when they     *)
(* have the same mode and the same pixels.  OpenCV and PIL calls are       *)
(* modelled by their documented channel requirements and results.          *)
(* Angles are kept in half degrees (angle2 = 2 * degrees) so that the      *)
(* median of an even number of whole-degree angles stays an integer.       *)
(***************************************************************************)
EXTENDS Integers, Sequences, FiniteSets, TLC

VARIABLES
    pre_call,      \* the preprocessing function under call
    pre_image,     \* its image argument
    pre_config,    \* config dict of preprocess_image (NoConfig: None)
    pre_arg,       \* its numeric argument (strength, threshold_value, max_angle)
    pre_lines,     \* what cv2.HoughLines returns for the image (thetas, degrees)
    pre_pc,        \* "ready" | "done"
    pre_result     \* [ok, img, angle2, trace] once done

preVars == <<pre_call, pre_image, pre_config, pre_arg, pre_lines, pre_pc, pre_result>>

VARIABLES
    active_tab,             \* the tab the session works in: "single" | "batch" | "pdf"
    opt,                    \* the sidebar options
    pc,                     \* "idle" | "batch_loop" | "pdf_loop"
    ss_extracted_text,      \* st.session_state.extracted_text
    ss_preprocessed_image,  \* st.session_state.preprocessed_image
    ss_batch_results,       \* st.session_state.batch_results
    ss_pdf_images,          \* st.session_state.pdf_images
    t1_shown,               \* what the last script run of tab 1 displayed
    valid_files,            \* tab 2: the files validate_batch_files accepted
    loaded_images,          \* tab 2: what load_batch_images loaded
    batch_results,          \* tab 2: local list of the running handler
    errors,                 \* tab 2: local list of (filename, message)
    idx,                    \* tab 2: units of loaded_images already processed
    pdf_file,               \* tab 3: the uploaded PDF (0: none)
    pdf_message,            \* tab 3: what the conversion displayed in the last script run
    first_page,             \* tab 3: the "Start page" widget
    last_page,              \* tab 3: the "End page" widget
    pdf_results,            \* tab 3: local list of the running handler
    pdf_shown_errors,       \* tab 3: the st.error messages of the running handler
    page_idx,               \* tab 3: pages of pdf_images already processed
    attempts                \* the units the running handler has processed, with the calls made

ssVars == <<ss_extracted_text, ss_preprocessed_image, ss_batch_results, ss_pdf_images>>
tab1Vars == <<t1_shown>>
tab2Vars == <<valid_files, loaded_images, batch_results, errors, idx>>
tab3Vars == <<pdf_file, pdf_message, first_page, last_page, pdf_results, pdf_shown_errors,
              page_idx>>
appVars == <<active_tab, opt, pc, ssVars, tab1Vars, tab2Vars, tab3Vars, attempts>>

VARIABLES
    fn_call,                \* the recognition or cleanup function under call
    fn_args,                \* its arguments
    fn_pc,                  \* "ready" | "done"
    fn_result               \* what it returned or raised, once done

fnVars == <<fn_call, fn_args, fn_pc, fn_result>>

vars == <<preVars, appVars, fnVars>>

---------------------------------------------------------------------------
(* Python None for an optional integer argument                             *)
None == -999

Abs(x) == IF x < 0 THEN -x ELSE x
Max2(a, b) == IF a > b THEN a ELSE b
Min2(a, b) == IF a < b THEN a ELSE b

---------------------------------------------------------------------------
(* Images and arrays                                                        *)

Modes == {"L", "RGB", "RGBA"}

\* PIL image as opened from a file: data in the mode's own channel order
SourceImage(mode, src) ==
    [mode |-> mode, order |-> IF mode = "L" THEN "GRAY" ELSE mode,
     src |-> src, ops |-> <<>>]

NoImage == [mode |-> "none", order |-> "none", src |-> 0, ops |-> <<>>]
NoArray == [ch |-> 0, order |-> "none", src |-> 0, ops |-> <<>>]

Channels(image) ==
    CASE image.mode = "L" -> 1
      [] image.mode = "RGB" -> 3
      [] image.mode = "RGBA" -> 4
      [] OTHER -> 0

Op(name, arg) == [op |-> name, arg |-> arg]

\* np.array(pil_image): (H, W) for mode L, (H, W, C) otherwise
np_array(image) ==
    [ch |-> Channels(image), order |-> image.order, src |-> image.src, ops |-> image.ops]

\* Image.fromarray(arr): the mode follows the array's shape; 3-channel data
\* is taken to be RGB whatever order it really holds
Image_fromarray(arr) ==
    [mode |-> CASE arr.ch = 1 -> "L" [] arr.ch = 3 -> "RGB" [] arr.ch = 4 -> "RGBA"
                [] OTHER -> "none",
     order |-> arr.order, src |-> arr.src, ops |-> arr.ops]

Raise == [ok |-> FALSE, arr |-> NoArray]
Ret(arr) == [ok |-> TRUE, arr |-> arr]

\* cv2.cvtColor(arr, code).  RGB2BGR and BGR2RGB are the same channel swap and
\* accept 3 or 4 channels; GRAY2BGR accepts 1; BGR2GRAY accepts 3 or 4.
cvtColor(arr, code) ==
    CASE code \in {"RGB2BGR", "BGR2RGB"} ->
            IF arr.ch \notin {3, 4} THEN Raise
            ELSE Ret([arr EXCEPT !.ch = 3,
                         !.order = IF arr.order = "BGR" THEN "RGB" ELSE "BGR"])
      [] code = "GRAY2BGR" ->
            IF arr.ch # 1 THEN Raise
            ELSE Ret([arr EXCEPT !.ch = 3, !.order = "GRAY3"])
      [] code = "BGR2GRAY" ->
            IF arr.ch \notin {3, 4} THEN Raise
            ELSE Ret([arr EXCEPT !.ch = 1, !.order = "GRAY",
                         !.ops = IF arr.order = "GRAY3" THEN arr.ops
                                 ELSE Append(arr.ops, Op("luma", 0))])
      [] OTHER -> Raise

pil_to_cv2(pil_image) == cvtColor(np_array(pil_image), "RGB2BGR")

cv2_to_pil(cv2_image) ==
    LET rgb == cvtColor(cv2_image, "BGR2RGB")
    IN  IF rgb.ok THEN [ok |-> TRUE, img |-> Image_fromarray(rgb.arr)]
        ELSE [ok |-> FALSE, img |-> NoImage]

to_grayscale(image) ==
    IF image.mode = "L" THEN image
    ELSE [mode |-> "L", order |-> "GRAY", src |-> image.src,
          ops |-> Append(image.ops, Op("convertL", 0))]


\* Result of an image function: returned (ok) or raised.  `used` is the numeric
\* value the operation actually worked with (the h of the denoise filter, the
\* thresh of cv2.threshold, the max_angle of the deskew guard), None when the
\* function has no such value or left before using it.
ImgRaise(used) == [ok |-> FALSE, img |-> NoImage, used |-> used]
ImgRet(image, used) == [ok |-> TRUE, img |-> image, used |-> used]
WithUsed(r, used) == [ok |-> r.ok, img |-> r.img, used |-> used]

\* cv2.threshold(arr, thresh, 255, THRESH_BINARY [+ THRESH_OTSU]): Otsu needs a
\* single 8-bit channel; the plain threshold works channel by channel
cv2_threshold(arr, thresh, otsu) ==
    IF otsu /\ arr.ch # 1 THEN Raise
    ELSE Ret([arr EXCEPT !.ops = Append(arr.ops,
                 IF otsu THEN Op("otsu", 0) ELSE Op("threshold", thresh))])

apply_threshold(image, threshold_value) ==
    LET gray == to_grayscale(image)
        cv2_image == pil_to_cv2(gray)
        binary == IF threshold_value = None
                  THEN cv2_threshold(cv2_image.arr, 0, TRUE)
                  ELSE cv2_threshold(cv2_image.arr, threshold_value, FALSE)
        thresh == IF threshold_value = None THEN 0 ELSE threshold_value
    IN  IF ~cv2_image.ok THEN ImgRaise(None)
        ELSE IF ~binary.ok THEN ImgRaise(thresh)
        ELSE ImgRet(Image_fromarray(binary.arr), thresh)

\* cv2.fastNlMeansDenoising: 1 to 4 channels; ...Colored: 3 or 4 channels
fastNlMeansDenoising(arr, h) ==
    IF arr.ch \notin 1..4 THEN Raise
    ELSE Ret([arr EXCEPT !.ops = Append(arr.ops, Op("nlmeans", h))])

fastNlMeansDenoisingColored(arr, h) ==
    IF arr.ch \notin {3, 4} THEN Raise
    ELSE Ret([arr EXCEPT !.ops = Append(arr.ops, Op("nlmeans", h))])

ClampStrength(strength) == Max2(1, Min2(30, strength))

denoise(image, strength0) ==
    LET strength == ClampStrength(strength0)
    IN  IF image.mode = "L"
        THEN LET cv2_image == cvtColor(np_array(image), "GRAY2BGR")
                 denoised == fastNlMeansDenoising(cv2_image.arr, strength)
                 gray == cvtColor(denoised.arr, "BGR2GRAY")
             IN  IF ~cv2_image.ok THEN ImgRaise(None)
                 ELSE IF ~denoised.ok THEN ImgRaise(strength)
                 ELSE IF ~gray.ok THEN ImgRaise(strength)
                 ELSE ImgRet(Image_fromarray(gray.arr), strength)
        ELSE LET cv2_image == pil_to_cv2(image)
                 denoised == fastNlMeansDenoisingColored(cv2_image.arr, strength)
             IN  IF ~cv2_image.ok THEN ImgRaise(None)
                 ELSE IF ~denoised.ok THEN ImgRaise(strength)
                 ELSE WithUsed(cv2_to_pil(denoised.arr), strength)

---------------------------------------------------------------------------
(* Skew estimation.  lines: the thetas (whole degrees, 0..179) of the lines  *)
(* cv2.HoughLines reports, <<>> when it reports none.                       *)

RECURSIVE Insert(_, _)
Insert(x, s) ==
    IF s = <<>> THEN <<x>>
    ELSE IF x <= Head(s) THEN <<x>> \o s
    ELSE <<Head(s)>> \o Insert(x, Tail(s))

RECURSIVE SortAsc(_)
SortAsc(s) == IF s = <<>> THEN <<>> ELSE Insert(Head(s), SortAsc(Tail(s)))

\* np.median, on half-degree values (all even): the middle element, or the
\* mean of the two middle elements
Median2(angles2) ==
    LET s == SortAsc(angles2)
        n == Len(s)
    IN  IF n % 2 = 1 THEN s[(n + 1) \div 2]
        ELSE (s[n \div 2] + s[n \div 2 + 1]) \div 2

\* (mutant) the wrap tests 90 degrees where the code tests 45
NormalizeAngle2_at90(median2) ==
    IF median2 > 180 THEN median2 - 180
    ELSE IF median2 < -180 THEN median2 + 180
    ELSE median2

\* the +-90 degree wrap of lines 153..156
NormalizeAngle2(median2) ==
    IF median2 > 90 THEN median2 - 180
    ELSE IF median2 < -90 THEN median2 + 180
    ELSE median2

estimate_skew_angle(image, lines) ==
    LET gray == to_grayscale(image)
        cv2_image == cvtColor(np_array(gray), "GRAY2BGR")
        edges == cvtColor(cv2_image.arr, "BGR2GRAY")
        angles == [i \in 1..Len(lines) |-> 2 * (lines[i] - 90)]
    IN  IF ~cv2_image.ok \/ ~edges.ok THEN [ok |-> FALSE, angle2 |-> 0]
        ELSE IF Len(lines) = 0 THEN [ok |-> TRUE, angle2 |-> 0]
        ELSE [ok |-> TRUE, angle2 |-> NormalizeAngle2(Median2(angles))]

\* cv2.warpAffine with the rotation matrix of `angle`
warpAffine(arr, angle2) ==
    Ret([arr EXCEPT !.ops = Append(arr.ops, Op("warpAffine", angle2))])

\* (mutant) the guard compares the signed angle
DeskewSkips_signed(angle2, max_angle) == angle2 > 2 * max_angle

\* the guard of line 175: TRUE when the image is returned as it is
DeskewSkips(angle2, max_angle) == Abs(angle2) > 2 * max_angle

deskew(image, max_angle, lines) ==
    LET est == estimate_skew_angle(image, lines)
        cv2_image == pil_to_cv2(image)
        rotated == warpAffine(cv2_image.arr, est.angle2)
    IN  IF ~est.ok THEN ImgRaise(None)
        ELSE IF DeskewSkips(est.angle2, max_angle) THEN ImgRet(image, max_angle)
        ELSE IF ~cv2_image.ok THEN ImgRaise(max_angle)
        ELSE WithUsed(cv2_to_pil(rotated.arr), max_angle)

---------------------------------------------------------------------------
(* preprocess_image                                                         *)

\* config/settings.py IMAGE_PROCESSING
IMAGE_PROCESSING ==
    [grayscale |-> TRUE, threshold_enabled |-> TRUE, threshold_value |-> 127,
     denoise_enabled |-> TRUE, denoise_strength |-> 10,
     deskew_enabled |-> FALSE, max_angle |-> 10]

\* config = None
NoConfig == [None |-> TRUE]

\* (mutant) the option is read from the settings dict, not from config
Get_settings(config, key, default) ==
    IF key \in DOMAIN IMAGE_PROCESSING THEN IMAGE_PROCESSING[key] ELSE default

\* config.get(key, default)
Get(config, key, default) ==
    IF key \in DOMAIN config THEN config[key] ELSE default

\* the call a pipeline step makes on the image it is given
StepCall(name, image, param, lines) ==
    CASE name = "grayscale" -> ImgRet(to_grayscale(image), None)
      [] name = "denoise" -> denoise(image, param)
      [] name = "deskew" -> deskew(image, param, lines)
      [] name = "threshold" -> apply_threshold(image, param)

\* one pipeline step, `processed = step(processed, param)`; an exception
\* raised by an earlier step has already left the function.  The trace keeps
\* every call made: the step, the image and parameter passed, the outcome.
PStep(s, name, param, lines) ==
    IF ~s.ok THEN s
    ELSE LET r == StepCall(name, s.img, param, lines)
         IN  [ok |-> r.ok, img |-> r.img,
              trace |-> Append(s.trace, [step |-> name, input |-> s.img,
                                         output |-> r.img, ok |-> r.ok,
                                         param |-> param, used |-> r.used])]

\* (mutant) deskew runs before denoise
PipelineSteps_deskew_first ==
    << [step |-> "grayscale", key |-> "grayscale", default |-> TRUE,
        arg |-> "", argdefault |-> 0],
       [step |-> "deskew", key |-> "deskew_enabled", default |-> FALSE,
        arg |-> "max_angle", argdefault |-> 10],
       [step |-> "denoise", key |-> "denoise_enabled", default |-> TRUE,
        arg |-> "denoise_strength", argdefault |-> 10],
       [step |-> "threshold", key |-> "threshold_enabled", default |-> TRUE,
        arg |-> "threshold_value", argdefault |-> 127] >>

\* Steps 1 to 4 of preprocess_image in the order of the code: the switch that
\* enables the step and its default, the numeric option it reads and its default
PipelineSteps ==
    << [step |-> "grayscale", key |-> "grayscale", default |-> TRUE,
        arg |-> "", argdefault |-> 0],
       [step |-> "denoise", key |-> "denoise_enabled", default |-> TRUE,
        arg |-> "denoise_strength", argdefault |-> 10],
       [step |-> "deskew", key |-> "deskew_enabled", default |-> FALSE,
        arg |-> "max_angle", argdefault |-> 10],
       [step |-> "threshold", key |-> "threshold_enabled", default |-> TRUE,
        arg |-> "threshold_value", argdefault |-> 127] >>

\* the rest of the function body from the state s on
RECURSIVE RunSteps(_, _, _, _)
RunSteps(s, steps, config, lines) ==
    IF steps = <<>> THEN s
    ELSE LET st == Head(steps)
             param == IF st.arg = "" THEN 0 ELSE Get(config, st.arg, st.argdefault)
             after == IF Get(config, st.key, st.default)
                      THEN PStep(s, st.step, param, lines)
                      ELSE s
         IN  RunSteps(after, Tail(steps), config, lines)

preprocess_image(image, config0, lines) ==
    LET config == IF config0 = NoConfig THEN IMAGE_PROCESSING ELSE config0
        processed == [ok |-> TRUE, img |-> image, trace |-> <<>>]
    IN  RunSteps(processed, PipelineSteps, config, lines)

---------------------------------------------------------------------------
(* Calls of the preprocessing functions: SpecPre                            *)

MaxLines == 3

Thetas == {0, 1, 44, 45, 46, 89, 90, 91, 134, 135, 136, 179}

RECURSIVE SeqsUpTo(_, _)
SeqsUpTo(S, n) ==
    IF n = 0 THEN {<<>>}
    ELSE LET shorter == SeqsUpTo(S, n - 1)
         IN  shorter \cup {Append(q, x) : q \in {r \in shorter : Len(r) = n - 1}, x \in S}

SkewLines == SeqsUpTo(Thetas, MaxLines)

\* the skews a page image shows to preprocess_image: none, 5 and 30 degrees
PageLines == {<<>>, <<95>>, <<120, 120>>}

PreImages == {SourceImage(m, 1) : m \in Modes}
Strengths == {0, 10, 31}
ThresholdValues == {-1, 127, 256, None}
MaxAngles == {-1, 10, 45}

ConfigKeys == {"grayscale", "denoise_enabled", "denoise_strength", "deskew_enabled",
               "max_angle", "threshold_enabled", "threshold_value"}

FullConfigs ==
    [grayscale : BOOLEAN, denoise_enabled : BOOLEAN, denoise_strength : Strengths,
     deskew_enabled : BOOLEAN, max_angle : MaxAngles,
     threshold_enabled : BOOLEAN, threshold_value : ThresholdValues]

\* dicts with every key, with one key missing, or empty
KeySets == {ConfigKeys} \cup {ConfigKeys \ {k} : k \in ConfigKeys} \cup {{}}

Configs == {[k \in K |-> c[k]] : c \in FullConfigs, K \in KeySets} \cup {NoConfig}

MaxPages == 3      \* pages of the uploaded PDF

\* session_state.extracted_text before any extraction (app.py 70-71: None)
NoText == [src |-> 0, ops |-> <<>>]

NothingShown == [image |-> NoImage, result |-> "none", boxes |-> "none"]

\* the script's first run: session_state defaults (app.py 70-77), no handler running
SessionStart ==
    /\ pc = "idle"
    /\ ss_extracted_text = NoText
    /\ ss_preprocessed_image = NoImage
    /\ ss_batch_results = <<>>
    /\ ss_pdf_images = <<>>
    /\ t1_shown = NothingShown
    /\ valid_files = <<>>
    /\ loaded_images = <<>>
    /\ batch_results = <<>>
    /\ errors = <<>>
    /\ idx = 0
    /\ pdf_file = 0
    /\ pdf_message = "none"
    /\ first_page = 1
    /\ last_page = Min2(first_page + 5, MaxPages)
    /\ pdf_results = <<>>
    /\ pdf_shown_errors = <<>>
    /\ page_idx = 0
    /\ attempts = <<>>

\* no recognition or cleanup function is called on its own
NoCall ==
    /\ fn_call = "none"
    /\ fn_args = <<>>
    /\ fn_pc = "done"
    /\ fn_result = <<>>

\* the preprocessing functions called on their own: no session
NoSession ==
    /\ active_tab = "none"
    /\ opt = NoConfig
    /\ SessionStart

NoResult == [ok |-> FALSE, img |-> NoImage, used |-> None, angle2 |-> 0, trace |-> <<>>]

PreInputs(call, image, config, arg, lines) ==
    /\ pre_call = call
    /\ pre_image = image
    /\ pre_config = config
    /\ pre_arg = arg
    /\ pre_lines = lines
    /\ pre_pc = "ready"
    /\ pre_result = NoResult

InitPre ==
    /\ NoSession
    /\ NoCall
    /\ \/ \E i \in PreImages, c \in Configs, l \in PageLines :
             PreInputs("preprocess_image", i, c, 0, l)
       \/ \E i \in PreImages : PreInputs("to_grayscale", i, NoConfig, 0, <<>>)
       \/ \E i \in PreImages, v \in ThresholdValues :
             PreInputs("apply_threshold", i, NoConfig, v, <<>>)
       \/ \E i \in PreImages, v \in Strengths : PreInputs("denoise", i, NoConfig, v, <<>>)
       \/ \E i \in PreImages, l \in SkewLines :
             PreInputs("estimate_skew_angle", i, NoConfig, 0, l)
       \/ \E i \in PreImages, v \in MaxAngles, l \in SkewLines :
             PreInputs("deskew", i, NoConfig, v, l)

PreReturn(call, r) ==
    /\ pre_pc = "ready"
    /\ pre_call = call
    /\ pre_pc' = "done"
    /\ pre_result' = r
    /\ UNCHANGED <<pre_call, pre_image, pre_config, pre_arg, pre_lines, appVars, fnVars>>

ImgResult(r) == [ok |-> r.ok, img |-> r.img, used |-> r.used, angle2 |-> 0, trace |-> <<>>]

CallPreprocessImage ==
    LET r == preprocess_image(pre_image, pre_config, pre_lines)
    IN  PreReturn("preprocess_image",
                  [ok |-> r.ok, img |-> r.img, used |-> None, angle2 |-> 0,
                   trace |-> r.trace])

CallToGrayscale ==
    PreReturn("to_grayscale", ImgResult(ImgRet(to_grayscale(pre_image), None)))

CallApplyThreshold ==
    PreReturn("apply_threshold", ImgResult(apply_threshold(pre_image, pre_arg)))

CallDenoise ==
    PreReturn("denoise", ImgResult(denoise(pre_image, pre_arg)))

CallEstimateSkewAngle ==
    LET r == estimate_skew_angle(pre_image, pre_lines)
    IN  PreReturn("estimate_skew_angle",
                  [ok |-> r.ok, img |-> NoImage, used |-> None, angle2 |-> r.angle2,
                   trace |-> <<>>])

CallDeskew ==
    PreReturn("deskew", ImgResult(deskew(pre_image, pre_arg, pre_lines)))

NextPre ==
    \/ CallPreprocessImage
    \/ CallToGrayscale
    \/ CallApplyThreshold
    \/ CallDenoise
    \/ CallEstimateSkewAngle
    \/ CallDeskew

SpecPre == InitPre /\ [][NextPre]_vars

---------------------------------------------------------------------------
(* The Streamlit orchestrator (app.py): recognition and cleanup calls       *)

\* the text Tesseract reads from an image whose pixels come from src
RawText(src) == [src |-> src, ops |-> <<>>]

TextOp(text, name) == [text EXCEPT !.ops = Append(@, name)]

DEFAULT_LANGUAGE == "eng"

OCR_SETTINGS == [lang |-> DEFAULT_LANGUAGE, config |-> "--psm 3"]

\* isinstance(image, Image.Image)
IsImage(x) == x.mode \in Modes

\* a str argument: pytesseract takes it for the path of an image file
PathArg == [mode |-> "str", src |-> 2, order |-> "none", ops |-> <<>>]

\* the config argument of extract_text: omitted (None), a string, a dict
ConfigOmitted == [kind |-> "none", value |-> <<>>]
ConfigString(c) == [kind |-> "str", value |-> c]
ConfigDict(d) == [kind |-> "dict", value |-> d]

\* pytesseract.image_to_string / image_to_data: TypeError for an object that is
\* no image, array or path, before Tesseract is run; then what Tesseract does
pytesseract_call(image, engine) ==
    IF ~IsImage(image) /\ image.mode # "str" THEN "TypeError"
    ELSE IF engine = "not_found" THEN "TesseractNotFoundError"
    ELSE IF engine = "error" THEN "TesseractError"
    ELSE "ok"

OcrRaise(type, message, cause, calls) ==
    [ok |-> FALSE, text |-> NoText, confidence |-> <<0, 1>>, boxes |-> <<>>,
     error |-> type, message |-> message, cause |-> cause, engine_calls |-> calls]

OcrReturn(text, confidence, boxes, calls) ==
    [ok |-> TRUE, text |-> text, confidence |-> confidence, boxes |-> boxes,
     error |-> "", message |-> "", cause |-> "", engine_calls |-> calls]

\* (mutant) every exception of the engine is reported with the generic message
ExtractTextMessage_generic(cause) == "OCR extraction failed"

\* the except clauses of extract_text: TesseractNotFoundError first
ExtractTextMessage(cause) ==
    IF cause = "TesseractNotFoundError"
    THEN "Tesseract OCR is not installed or not found"
    ELSE "OCR extraction failed"

\* ocr_engine.extract_text
extract_text(image, language, config0, engine) ==
    IF ~IsImage(image)
    THEN OcrRaise("TypeError", "image must be a PIL Image object", "", <<>>)
    ELSE LET config == IF config0.kind = "none" THEN ConfigDict(OCR_SETTINGS) ELSE config0
             lang == IF config.kind = "dict" THEN Get(config.value, "lang", language)
                     ELSE language
             psm_config == IF config.kind = "dict"
                           THEN Get(config.value, "config", "--psm 3")
                           ELSE config.value
             calls == <<[api |-> "image_to_string", lang |-> lang, config |-> psm_config]>>
             out == pytesseract_call(image, engine)
         IN  IF out = "ok" THEN OcrReturn(RawText(image.src), <<0, 1>>, <<>>, calls)
             ELSE OcrRaise("RuntimeError", ExtractTextMessage(out), out, calls)

clean_text_call(text) == TextOp(text, "clean_text")

fix_common_ocr_errors_call(text) == TextOp(text, "fix_common_ocr_errors")

\* (mutant) a failure of the spell checker loses the text
apply_spell_correction_call_losing(text, outcome) ==
    IF outcome = "failed" THEN NoText
    ELSE TextOp(text, "apply_spell_correction")

\* postprocessing.apply_spell_correction: an exception of the spell checker is
\* caught inside and the text comes back as it was; the function never raises,
\* so the except branches around its calls in app.py are never taken
apply_spell_correction_call(text, outcome) ==
    IF outcome = "failed" THEN text
    ELSE TextOp(text, "apply_spell_correction")

UnitFail(calls, error) ==
    [ok |-> FALSE, text |-> NoText, pre |-> NoImage, calls |-> calls,
     error |-> error, spell_failed |-> FALSE]

UnitOk(text, pre, calls, spell_failed) ==
    [ok |-> TRUE, text |-> text, pre |-> pre, calls |-> calls,
     error |-> "", spell_failed |-> spell_failed]

CallsIf(flag, name) == IF flag THEN <<name>> ELSE <<>>

\* the try block of the "Extract Text" button; pre is what preprocess_image did
Tab1Unit(pre, engine, spell) ==
    LET ocr == extract_text(pre.img, DEFAULT_LANGUAGE, ConfigOmitted, engine)
        cleaned == clean_text_call(ocr.text)
        fixed == IF opt.fix_ocr_errors THEN fix_common_ocr_errors_call(cleaned) ELSE cleaned
        spelled == IF opt.spellcheck_enabled THEN apply_spell_correction_call(fixed, spell)
                   ELSE fixed
        calls == <<"preprocess_image", "extract_text", "clean_text">>
                 \o CallsIf(opt.fix_ocr_errors, "fix_common_ocr_errors")
                 \o CallsIf(opt.spellcheck_enabled, "apply_spell_correction")
    IN  IF ~pre.ok THEN UnitFail(<<"preprocess_image">>, "preprocess_image")
        ELSE IF ~ocr.ok THEN UnitFail(<<"preprocess_image", "extract_text">>, ocr.error)
        ELSE UnitOk(spelled, pre.img, calls, opt.spellcheck_enabled /\ spell = "failed")

\* the try block of the batch loop; pre is what preprocess_image did
Tab2Unit(pre, engine, spell) ==
    LET ocr == extract_text(pre.img, DEFAULT_LANGUAGE, ConfigOmitted, engine)
        cleaned == clean_text_call(ocr.text)
        fixed == IF opt.fix_ocr_errors THEN fix_common_ocr_errors_call(cleaned) ELSE cleaned
        spelled == IF opt.spellcheck_enabled THEN apply_spell_correction_call(fixed, spell)
                   ELSE fixed
        calls == <<"preprocess_image", "extract_text", "clean_text">>
                 \o CallsIf(opt.fix_ocr_errors, "fix_common_ocr_errors")
                 \o CallsIf(opt.spellcheck_enabled, "apply_spell_correction")
    IN  IF ~pre.ok THEN UnitFail(<<"preprocess_image">>, "preprocess_image")
        ELSE IF ~ocr.ok THEN UnitFail(<<"preprocess_image", "extract_text">>, ocr.error)
        ELSE UnitOk(spelled, pre.img, calls, opt.spellcheck_enabled /\ spell = "failed")

\* the try block of the PDF page loop; pre is what preprocess_image did;
\* clean_text is the only cleanup call
Tab3Unit(pre, engine) ==
    LET ocr == extract_text(pre.img, DEFAULT_LANGUAGE, ConfigOmitted, engine)
        cleaned == clean_text_call(ocr.text)
    IN  IF ~pre.ok THEN UnitFail(<<"preprocess_image">>, "preprocess_image")
        ELSE IF ~ocr.ok THEN UnitFail(<<"preprocess_image", "extract_text">>, ocr.error)
        ELSE UnitOk(cleaned, pre.img,
                    <<"preprocess_image", "extract_text", "clean_text">>, FALSE)

---------------------------------------------------------------------------
(* The Streamlit orchestrator: inputs                                       *)

MaxUnits == 3      \* files in a batch
MaxUploads == 2    \* different images uploaded to tab 1

\* load_image hands on RGB or L images only
AppModes == {"RGB", "L"}
\* a file of a batch: a colour image, or one load_image cannot read
FileKinds == {"RGB", "corrupt"}
Engines == {"ok", "error"}
SpellOutcomes == {"corrected", "failed"}
BoxOutcomes == {"shown", "raise"}

\* preprocess_config as the tabs build it from the sidebar
SidebarConfig(g, d, t, k) ==
    [grayscale |-> g, denoise_enabled |-> d,
     denoise_strength |-> IMAGE_PROCESSING.denoise_strength,
     threshold_enabled |-> t,
     threshold_value |-> IMAGE_PROCESSING.threshold_value,
     deskew_enabled |-> k]

\* the checkbox defaults, every step off, grayscale and deskew only
SidebarConfigs ==
    {SidebarConfig(IMAGE_PROCESSING.grayscale, IMAGE_PROCESSING.denoise_enabled,
                   IMAGE_PROCESSING.threshold_enabled, IMAGE_PROCESSING.deskew_enabled),
     SidebarConfig(FALSE, FALSE, FALSE, FALSE),
     SidebarConfig(TRUE, FALSE, FALSE, TRUE)}

\* the oracles of a unit are consulted only by the calls that are made
LinesFor(config) == IF config.deskew_enabled THEN PageLines ELSE {<<>>}
SpellFor(enabled) == IF enabled THEN SpellOutcomes ELSE {"corrected"}

Sidebars ==
    [config : SidebarConfigs, fix_ocr_errors : BOOLEAN,
     spellcheck_enabled : BOOLEAN, show_bounding_boxes : BOOLEAN]

\* file_utils.load_image on an uploaded file
load_image(file) ==
    IF file.kind = "corrupt" THEN [ok |-> FALSE, image |-> NoImage]
    ELSE [ok |-> TRUE, image |-> SourceImage(file.kind, file.name)]

\* (mutant) a file that cannot be loaded is dropped without an error entry
load_batch_images_silent(uploaded_files) ==
    LET good == SelectSeq(uploaded_files, LAMBDA f : load_image(f).ok)
    IN  [successful_images |->
             [i \in 1..Len(good) |->
                 [filename |-> good[i].name, image |-> load_image(good[i]).image]],
         load_errors |-> <<>>]

\* file_utils.load_batch_images: (successful_images, load_errors), both in input order
load_batch_images(uploaded_files) ==
    LET good == SelectSeq(uploaded_files, LAMBDA f : load_image(f).ok)
        bad == SelectSeq(uploaded_files, LAMBDA f : ~load_image(f).ok)
    IN  [successful_images |->
             [i \in 1..Len(good) |->
                 [filename |-> good[i].name, image |-> load_image(good[i]).image]],
         load_errors |->
             [i \in 1..Len(bad) |-> [filename |-> bad[i].name, error |-> "load_image"]]]

\* the content of a page of a PDF: the hundreds name the file, the rest the page
PdfPageSrc(pdf_bytes, page) == pdf_bytes * 100 + page

PdfOf(src) == src \div 100

PageOf(src) == src % 100

\* pdf_utils.pdf_to_images: the pages first..last of the PDF as RGB images, or
\* an error
pdf_to_images(pdf_bytes, first, last, outcome) ==
    IF outcome = "error" THEN [ok |-> FALSE, images |-> <<>>]
    ELSE [ok |-> TRUE,
          images |-> [i \in 1..(last - first + 1) |->
                         SourceImage("RGB", PdfPageSrc(pdf_bytes, first + i - 1))]]

\* (mutant) the loop stops at the first unit that fails
NextIndex_break(i, n, ok) == IF ok THEN i + 1 ELSE n

\* for idx, unit in enumerate(units): the next unit, whatever happened to this one
NextIndex(i, n, ok) == i + 1

\* (mutant) results are put in front of the list
AppendResult_front(results, entry) == <<entry>> \o results

\* results.append(entry)
AppendResult(results, entry) == Append(results, entry)

Attempt(kind, unit, src, r) ==
    [kind |-> kind, unit |-> unit, src |-> src, calls |-> r.calls, ok |-> r.ok,
     spell_failed |-> r.spell_failed]

\* ocr_engine.get_annotated_image_with_boxes: RuntimeError when the image has no
\* three channels to convert or when the engine fails
get_annotated_image_with_boxes(image, outcome) ==
    cvtColor(np_array(image), "RGB2BGR").ok /\ outcome = "shown"

\* the bounding box section of tab 1, shown only with a text to show
ShowBoxes(text, image, outcome) ==
    IF text = NoText \/ ~opt.show_bounding_boxes THEN "none"
    ELSE IF get_annotated_image_with_boxes(image, outcome) THEN "shown"
    ELSE "warning"

---------------------------------------------------------------------------
(* The Streamlit orchestrator: one action per script run or loop iteration  *)

Init ==
    /\ PreInputs("none", NoImage, NoConfig, 0, <<>>)
    /\ NoCall
    /\ active_tab \in {"single", "batch", "pdf"}
    /\ opt \in {o \in Sidebars : o.show_bounding_boxes => active_tab = "single"}
    /\ SessionStart

Idle(tab) == active_tab = tab /\ pc = "idle"

\* tab 1, a script run with "Extract Text" pressed
Tab1Extract ==
    /\ Idle("single")
    /\ \E src \in 1..MaxUploads, mode \in AppModes, lines \in LinesFor(opt.config),
          engine \in Engines, spell \in SpellFor(opt.spellcheck_enabled),
          boxes \in BoxOutcomes :
       \E pre \in {preprocess_image(SourceImage(mode, src), opt.config, lines)} :
       \E r \in {Tab1Unit(pre, engine, spell)} :
          LET text == IF r.ok THEN r.text ELSE ss_extracted_text
          IN  /\ ss_extracted_text' = text
              /\ ss_preprocessed_image' = IF r.ok THEN r.pre ELSE ss_preprocessed_image
              /\ t1_shown' = [image |-> SourceImage(mode, src),
                              result |-> IF r.ok THEN "success" ELSE "error",
                              boxes |-> ShowBoxes(text, SourceImage(mode, src), boxes)]
              /\ attempts' = <<Attempt("single", src, src, r)>>
    /\ UNCHANGED <<preVars, fnVars, active_tab, opt, pc, ss_batch_results, ss_pdf_images,
                   tab2Vars, tab3Vars>>

\* tab 1, a script run without the button: the stored text is shown again
Tab1Rerun ==
    /\ Idle("single")
    /\ \E src \in 1..MaxUploads, mode \in AppModes, boxes \in BoxOutcomes :
          t1_shown' = [image |-> SourceImage(mode, src), result |-> "none",
                       boxes |-> ShowBoxes(ss_extracted_text, SourceImage(mode, src),
                                           boxes)]
    /\ UNCHANGED <<preVars, fnVars, active_tab, opt, pc, ssVars, tab2Vars, tab3Vars, attempts>>

\* tab 2, "Process Batch" pressed: the lists are created and the images loaded
BatchClick ==
    /\ Idle("batch")
    /\ \E n \in 1..MaxUnits :
       \E kinds \in [1..n -> FileKinds] :
       \E l \in {load_batch_images([i \in 1..n |-> [name |-> i, kind |-> kinds[i]]])} :
          LET files == [i \in 1..n |-> [name |-> i, kind |-> kinds[i]]]
          IN  /\ valid_files' = files
              /\ loaded_images' = l.successful_images
              /\ errors' = l.load_errors
    /\ batch_results' = <<>>
    /\ idx' = 0
    /\ attempts' = <<>>
    /\ pc' = "batch_loop"
    /\ UNCHANGED <<preVars, fnVars, active_tab, opt, ssVars, tab1Vars, tab3Vars>>

\* tab 2, one iteration of the loop over loaded_images
BatchUnit ==
    /\ active_tab = "batch"
    /\ pc = "batch_loop"
    /\ idx < Len(loaded_images)
    /\ \E lines \in LinesFor(opt.config), engine \in Engines,
          spell \in SpellFor(opt.spellcheck_enabled) :
       \E pre \in {preprocess_image(loaded_images[idx + 1].image, opt.config, lines)} :
       \E r \in {Tab2Unit(pre, engine, spell)} :
          LET unit == loaded_images[idx + 1]
          IN  /\ batch_results' =
                     IF r.ok
                     THEN AppendResult(batch_results,
                                       [filename |-> unit.filename, text |-> r.text])
                     ELSE batch_results
              /\ errors' =
                     IF r.ok THEN errors
                     ELSE Append(errors, [filename |-> unit.filename, error |-> r.error])
              /\ attempts' = Append(attempts, Attempt("batch", unit.filename,
                                                      unit.image.src, r))
              /\ idx' = NextIndex(idx, Len(loaded_images), r.ok)
    /\ UNCHANGED <<preVars, fnVars, active_tab, opt, pc, ssVars, tab1Vars, valid_files,
                   loaded_images, tab3Vars>>

\* tab 2, after the loop: the list is stored in session_state
BatchStore ==
    /\ active_tab = "batch"
    /\ pc = "batch_loop"
    /\ idx >= Len(loaded_images)
    /\ ss_batch_results' = batch_results
    /\ pc' = "idle"
    /\ UNCHANGED <<preVars, fnVars, active_tab, opt, ss_extracted_text, ss_preprocessed_image,
                   ss_pdf_images, tab1Vars, tab2Vars, tab3Vars, attempts>>

\* a script run of tab 3 without "Extract Text from Pages" pressed: the lists of
\* the handler do not exist and no result is displayed
NoPdfResults ==
    /\ pdf_results' = <<>>
    /\ pdf_shown_errors' = <<>>
    /\ page_idx' = 0
    /\ attempts' = <<>>

\* tab 3, a PDF is uploaded, or another one in place of the current one
PdfUpload ==
    /\ Idle("pdf")
    /\ \E f \in 1..MaxUploads :
          /\ f # pdf_file
          /\ pdf_file' = f
    /\ pdf_message' = "none"
    /\ NoPdfResults
    /\ UNCHANGED <<preVars, fnVars, active_tab, opt, pc, ssVars, tab1Vars, tab2Vars,
                   first_page, last_page>>

\* tab 3, the "Start page" widget is changed: "End page" falls back to its default
PdfSetFirstPage ==
    /\ Idle("pdf")
    /\ pdf_file # 0
    /\ \E f \in 1..MaxPages :
          /\ f # first_page
          /\ first_page' = f
          /\ last_page' = Min2(f + 5, MaxPages)
    /\ pdf_message' = "none"
    /\ NoPdfResults
    /\ UNCHANGED <<preVars, fnVars, active_tab, opt, pc, ssVars, tab1Vars, tab2Vars,
                   pdf_file>>

\* tab 3, the "End page" widget is changed
PdfSetLastPage ==
    /\ Idle("pdf")
    /\ pdf_file # 0
    /\ \E l \in first_page..MaxPages :
          /\ l # last_page
          /\ last_page' = l
    /\ pdf_message' = "none"
    /\ NoPdfResults
    /\ UNCHANGED <<preVars, fnVars, active_tab, opt, pc, ssVars, tab1Vars, tab2Vars,
                   pdf_file, first_page>>

\* if pdf_error: st.error(...) else: st.session_state.pdf_images = images
StorePdfImages(c, stored) == IF c.ok THEN c.images ELSE stored

\* tab 3, "Convert PDF to Text" pressed
PdfConvert ==
    /\ Idle("pdf")
    /\ pdf_file # 0
    /\ \E outcome \in {"ok", "error"} :
          LET c == pdf_to_images(pdf_file, first_page, last_page, outcome)
          IN  /\ ss_pdf_images' = StorePdfImages(c, ss_pdf_images)
              /\ pdf_message' = IF c.ok THEN "success" ELSE "error"
    /\ NoPdfResults
    /\ UNCHANGED <<preVars, fnVars, active_tab, opt, pc, ss_extracted_text,
                   ss_preprocessed_image, ss_batch_results, tab1Vars, tab2Vars,
                   pdf_file, first_page, last_page>>

\* tab 3, "Extract Text from Pages" pressed: the button exists once pages are stored
PdfExtractClick ==
    /\ Idle("pdf")
    /\ pdf_file # 0
    /\ ss_pdf_images # <<>>
    /\ pdf_results' = <<>>
    /\ pdf_shown_errors' = <<>>
    /\ page_idx' = 0
    /\ attempts' = <<>>
    /\ pc' = "pdf_loop"
    /\ pdf_message' = "none"
    /\ UNCHANGED <<preVars, fnVars, active_tab, opt, ssVars, tab1Vars, tab2Vars,
                   pdf_file, first_page, last_page>>

\* tab 3, one iteration of the loop over session_state.pdf_images
PdfPage ==
    /\ active_tab = "pdf"
    /\ pc = "pdf_loop"
    /\ page_idx < Len(ss_pdf_images)
    /\ \E lines \in LinesFor(opt.config), engine \in Engines :
       \E pre \in {preprocess_image(ss_pdf_images[page_idx + 1], opt.config, lines)} :
       \E r \in {Tab3Unit(pre, engine)} :
          LET page_image == ss_pdf_images[page_idx + 1]
              page_num == first_page + page_idx
          IN  /\ pdf_results' =
                     IF r.ok
                     THEN AppendResult(pdf_results, [filename |-> page_num, text |-> r.text])
                     ELSE pdf_results
              /\ pdf_shown_errors' =
                     IF r.ok THEN pdf_shown_errors
                     ELSE Append(pdf_shown_errors, [page |-> page_num, error |-> r.error])
              /\ attempts' = Append(attempts, Attempt("pdf", page_num, page_image.src, r))
              /\ page_idx' = NextIndex(page_idx, Len(ss_pdf_images), r.ok)
    /\ UNCHANGED <<preVars, fnVars, active_tab, opt, pc, ssVars, tab1Vars, tab2Vars,
                   pdf_file, pdf_message, first_page, last_page>>

\* tab 3, after the loop: the results are displayed
PdfDone ==
    /\ active_tab = "pdf"
    /\ pc = "pdf_loop"
    /\ page_idx >= Len(ss_pdf_images)
    /\ pc' = "idle"
    /\ UNCHANGED <<preVars, fnVars, active_tab, opt, ssVars, tab1Vars, tab2Vars, tab3Vars,
                   attempts>>

Next ==
    \/ Tab1Extract
    \/ Tab1Rerun
    \/ BatchClick
    \/ BatchUnit
    \/ BatchStore
    \/ PdfUpload
    \/ PdfSetFirstPage
    \/ PdfSetLastPage
    \/ PdfConvert
    \/ PdfExtractClick
    \/ PdfPage
    \/ PdfDone

Spec == Init /\ [][Next]_vars

---------------------------------------------------------------------------
(* Recognition (core/ocr_engine.py).  data: what pytesseract.image_to_data   *)
(* reports, one entry [text, conf] per element of the page.                 *)

RECURSIVE SumSeq(_)
SumSeq(s) == IF s = <<>> THEN 0 ELSE Head(s) + SumSeq(Tail(s))

RECURSIVE MinSeq(_)
MinSeq(s) == IF Len(s) = 1 THEN s[1] ELSE Min2(Head(s), MinSeq(Tail(s)))

RECURSIVE MaxSeq(_)
MaxSeq(s) == IF Len(s) = 1 THEN s[1] ELSE Max2(Head(s), MaxSeq(Tail(s)))

\* word.strip() is not empty
NonBlank(word) == word \notin {"", " "}

\* " ".join([word for word in data.get("text", []) if word.strip()])
JoinWords(data) ==
    SelectSeq([i \in 1..Len(data) |-> data[i].text], NonBlank)

\* the confidences that enter the average: int(conf) > 0
CountedConf(conf) == conf > 0

\* ocr_engine.extract_text_with_confidence; the average is <<sum, count>>
extract_text_with_confidence(image, language, data, engine) ==
    LET calls == <<[api |-> "image_to_data", lang |-> language, config |-> ""]>>
        out == pytesseract_call(image, engine)
        confidences == SelectSeq([i \in 1..Len(data) |-> data[i].conf], CountedConf)
        avg_confidence == IF confidences # <<>>
                          THEN <<SumSeq(confidences), Len(confidences)>>
                          ELSE <<0, 1>>
    IN  IF out = "ok" THEN OcrReturn(JoinWords(data), avg_confidence, <<>>, calls)
        ELSE OcrRaise("RuntimeError", "OCR with confidence failed", out, calls)

\* ocr_engine.extract_text_with_bounding_boxes
extract_text_with_bounding_boxes(image, language, data, engine) ==
    LET calls == <<[api |-> "image_to_data", lang |-> language, config |-> ""]>>
        out == pytesseract_call(image, engine)
        boxes == SelectSeq(data, LAMBDA d : NonBlank(d.text))
    IN  IF out = "ok" THEN OcrReturn(JoinWords(data), <<0, 1>>, boxes, calls)
        ELSE OcrRaise("RuntimeError", "OCR with bounding boxes failed", out, calls)

\* (mutant) a range of exactly 10 is rejected too
TooUniform_inclusive(pixel_range) == pixel_range <= 10

\* if pixel_range < 10
TooUniform(pixel_range) == pixel_range < 10

Invalid(reason) == [ok |-> FALSE, reason |-> reason, raised |-> FALSE]

\* ocr_engine.validate_image_for_ocr; image: [mode, width, height, gray] with
\* gray the gray values image.convert("L") has
validate_image_for_ocr(image) ==
    IF image.mode = "none" THEN Invalid("Image is None")
    ELSE IF ~IsImage(image) THEN Invalid("Error validating image")
    ELSE IF image.width < 20 \/ image.height < 20 THEN Invalid("Image too small")
    ELSE IF image.gray = <<>> THEN Invalid("Image has no pixel data")
    ELSE IF TooUniform(MaxSeq(image.gray) - MinSeq(image.gray))
         THEN Invalid("Image appears to be blank or nearly uniform")
    ELSE [ok |-> TRUE, reason |-> "None", raised |-> FALSE]

---------------------------------------------------------------------------
(* The recognition functions called on their own                            *)

MaxWords == 2      \* entries of image_to_data

Languages == {"eng", "fra"}

ImageArgs == {SourceImage("RGB", 1), NoImage, PathArg}

Dicts(keys) == {[k \in keys |-> IF k = "lang" THEN l ELSE "--psm 6"] : l \in Languages}

OcrConfigs ==
    {ConfigOmitted, ConfigString("--psm 6")}
    \cup {ConfigDict(d) : d \in UNION {Dicts(keys) : keys \in SUBSET {"lang", "config"}}}

EngineOutcomes == {"ok", "not_found", "error"}

Confs == {-1, 0, 60, 90}

OcrData == SeqsUpTo([text : {"", " ", "w"}, conf : Confs], MaxWords)

Sizes == {0, 19, 20, 100}
Grays == {0, 9, 10, 100, 109, 110, 255}

ValidateArgs ==
    {a \in [mode : {"RGB"}, width : Sizes, height : Sizes, gray : SeqsUpTo(Grays, 2)] :
        (a.gray = <<>>) <=> (a.width = 0 \/ a.height = 0)}
    \cup {[mode |-> "none", width |-> 0, height |-> 0, gray |-> <<>>],
          [mode |-> "str", width |-> 0, height |-> 0, gray |-> <<>>]}

FnInputs(call, args) ==
    /\ fn_call = call
    /\ fn_args = args
    /\ fn_pc = "ready"
    /\ fn_result = <<>>

OcrArgs(image, language, config, data, engine) ==
    [image |-> image, language |-> language, config |-> config, data |-> data,
     engine |-> engine]

InitOcr ==
    /\ NoSession
    /\ PreInputs("none", NoImage, NoConfig, 0, <<>>)
    /\ \/ \E i \in ImageArgs, l \in Languages, c \in OcrConfigs, e \in EngineOutcomes :
             FnInputs("extract_text", OcrArgs(i, l, c, <<>>, e))
       \/ \E i \in ImageArgs, l \in Languages, d \in OcrData, e \in EngineOutcomes :
             FnInputs("extract_text_with_confidence", OcrArgs(i, l, ConfigOmitted, d, e))
       \/ \E i \in ImageArgs, l \in Languages, d \in OcrData, e \in EngineOutcomes :
             FnInputs("extract_text_with_bounding_boxes",
                      OcrArgs(i, l, ConfigOmitted, d, e))
       \/ \E i \in ValidateArgs :
             FnInputs("validate_image_for_ocr",
                      OcrArgs(i, DEFAULT_LANGUAGE, ConfigOmitted, <<>>, "ok"))

FnReturn(call, r) ==
    /\ fn_pc = "ready"
    /\ fn_call = call
    /\ fn_pc' = "done"
    /\ fn_result' = r
    /\ UNCHANGED <<fn_call, fn_args, preVars, appVars>>

CallExtractText ==
    FnReturn("extract_text",
             extract_text(fn_args.image, fn_args.language, fn_args.config, fn_args.engine))

CallExtractTextWithConfidence ==
    FnReturn("extract_text_with_confidence",
             extract_text_with_confidence(fn_args.image, fn_args.language, fn_args.data,
                                          fn_args.engine))

CallExtractTextWithBoundingBoxes ==
    FnReturn("extract_text_with_bounding_boxes",
             extract_text_with_bounding_boxes(fn_args.image, fn_args.language,
                                              fn_args.data, fn_args.engine))

CallValidateImageForOcr ==
    FnReturn("validate_image_for_ocr", validate_image_for_ocr(fn_args.image))

NextOcr ==
    \/ CallExtractText
    \/ CallExtractTextWithConfidence
    \/ CallExtractTextWithBoundingBoxes
    \/ CallValidateImageForOcr

SpecOcr == InitOcr /\ [][NextOcr]_vars

---------------------------------------------------------------------------
(* Text cleanup (core/postprocessing.py).  A text is the sequence of its     *)
(* characters.                                                              *)

\* the characters str.strip() removes
Whitespace == {" ", "\t", "\n", "\r"}

\* text.replace(old, new) for single characters
ReplaceChar(text, old, new) ==
    [i \in 1..Len(text) |-> IF text[i] = old THEN new ELSE text[i]]

\* re.sub(r' +', ' ', text)
RECURSIVE CollapseSpaces(_)
CollapseSpaces(text) ==
    IF Len(text) < 2 THEN text
    ELSE IF text[1] = " " /\ text[2] = " " THEN CollapseSpaces(Tail(text))
    ELSE <<text[1]>> \o CollapseSpaces(Tail(text))

\* text.replace('\r\n', '\n')
RECURSIVE ReplaceCRLF(_)
ReplaceCRLF(text) ==
    IF Len(text) < 2 THEN text
    ELSE IF text[1] = "\r" /\ text[2] = "\n"
         THEN <<"\n">> \o ReplaceCRLF(Tail(Tail(text)))
    ELSE <<text[1]>> \o ReplaceCRLF(Tail(text))

\* text.split('\n'): at least one line, one more than the number of LF
RECURSIVE SplitLines(_)
SplitLines(text) ==
    IF text = <<>> THEN <<(<<>>)>>
    ELSE LET rest == SplitLines(Tail(text))
         IN  IF text[1] = "\n" THEN <<(<<>>)>> \o rest
             ELSE <<(<<text[1]>> \o rest[1])>> \o Tail(rest)

\* '\n'.join(lines)
RECURSIVE JoinLines(_)
JoinLines(lines) ==
    IF lines = <<>> THEN <<>>
    ELSE IF Len(lines) = 1 THEN lines[1]
    ELSE lines[1] \o <<"\n">> \o JoinLines(Tail(lines))

RECURSIVE LStrip(_)
LStrip(line) ==
    IF line # <<>> /\ line[1] \in Whitespace THEN LStrip(Tail(line)) ELSE line

RECURSIVE RStrip(_)
RStrip(line) ==
    IF line # <<>> /\ line[Len(line)] \in Whitespace
    THEN RStrip(SubSeq(line, 1, Len(line) - 1))
    ELSE line

\* line.strip()
Strip(line) == RStrip(LStrip(line))

\* (mutant) the tabs are replaced before the runs of spaces are collapsed
remove_extra_whitespace_tabs_first(text) ==
    LET spaced == CollapseSpaces(ReplaceChar(text, "\t", " "))
        lines == SplitLines(spaced)
    IN  JoinLines([i \in 1..Len(lines) |-> Strip(lines[i])])

\* postprocessing.remove_extra_whitespace
remove_extra_whitespace(text) ==
    LET spaced == ReplaceChar(CollapseSpaces(text), "\t", " ")
        lines == SplitLines(spaced)
    IN  JoinLines([i \in 1..Len(lines) |-> Strip(lines[i])])

\* (mutant) only the Windows line breaks are converted
fix_line_breaks_crlf_only(text) == ReplaceCRLF(text)

\* postprocessing.fix_line_breaks
fix_line_breaks(text) == ReplaceChar(ReplaceCRLF(text), "\r", "\n")

\* postprocessing.remove_empty_lines
remove_empty_lines(text) ==
    JoinLines(SelectSeq(SplitLines(text), LAMBDA line : Strip(line) # <<>>))

\* the backtick character (written out, a string cannot hold it)
Backtick == "backtick"

\* the acute accent U+00B4
Acute == "acute"

\* the curly quotes U+201C, U+201D, U+2018 and U+2019
LeftDoubleQuote == "U+201C"
RightDoubleQuote == "U+201D"
LeftSingleQuote == "U+2018"
RightSingleQuote == "U+2019"

\* postprocessing.normalize_quotes, replace call by replace call.  In the source
\* the first argument of the calls of lines 198 and 199 is the straight double
\* quote itself, and lines 200 and 201 are one call whose first argument is a
\* triple-quoted string that runs from one line to the next, which no text here
\* contains: the curly quotes are not among the characters replaced.
normalize_quotes(text) ==
    LET left_double == ReplaceChar(text, "\"", "\"")
        right_double == ReplaceChar(left_double, "\"", "\"")
        backtick == ReplaceChar(right_double, Backtick, "'")
    IN  ReplaceChar(backtick, Acute, "'")

CleanStep(name, text) ==
    CASE name = "normalize_quotes" -> normalize_quotes(text)
      [] name = "fix_line_breaks" -> fix_line_breaks(text)
      [] name = "remove_extra_whitespace" -> remove_extra_whitespace(text)
      [] name = "remove_empty_lines" -> remove_empty_lines(text)

\* (mutant) the quotes are normalised whatever the flag
CleanSteps_quotes_always(remove_extra_spaces, fix_breaks, remove_blanks, normalize_quotes_mode) ==
    <<[step |-> "normalize_quotes", on |-> TRUE],
      [step |-> "fix_line_breaks", on |-> fix_breaks],
      [step |-> "remove_extra_whitespace", on |-> remove_extra_spaces],
      [step |-> "remove_empty_lines", on |-> remove_blanks]>>

\* (mutant) the whitespace is removed before the line breaks are fixed
CleanSteps_whitespace_first(remove_extra_spaces, fix_breaks, remove_blanks, normalize_quotes_mode) ==
    <<[step |-> "normalize_quotes", on |-> normalize_quotes_mode],
      [step |-> "remove_extra_whitespace", on |-> remove_extra_spaces],
      [step |-> "fix_line_breaks", on |-> fix_breaks],
      [step |-> "remove_empty_lines", on |-> remove_blanks]>>

\* the if statements of clean_text, in the order of the code
CleanSteps(remove_extra_spaces, fix_breaks, remove_blanks, normalize_quotes_mode) ==
    <<[step |-> "normalize_quotes", on |-> normalize_quotes_mode],
      [step |-> "fix_line_breaks", on |-> fix_breaks],
      [step |-> "remove_extra_whitespace", on |-> remove_extra_spaces],
      [step |-> "remove_empty_lines", on |-> remove_blanks]>>

RECURSIVE RunCleanSteps(_, _)
RunCleanSteps(s, steps) ==
    IF steps = <<>> THEN s
    ELSE LET st == Head(steps)
         IN  RunCleanSteps(IF st.on
                           THEN [text |-> CleanStep(st.step, s.text),
                                 trace |-> Append(s.trace, st.step)]
                           ELSE s,
                           Tail(steps))

\* postprocessing.clean_text: the text, and the steps it called
clean_text(text, remove_extra_spaces, fix_breaks, remove_blanks, normalize_quotes_mode) ==
    RunCleanSteps([text |-> text, trace |-> <<>>],
                  CleanSteps(remove_extra_spaces, fix_breaks, remove_blanks,
                             normalize_quotes_mode))

\* the characters \\w matches, of those the texts here are made of
WordChars ==
    {"0", "1", "_", "n", "e", "f", "N", "E", "F", "O",
     "i", "r", "a", "d", "b", "o", "k", "m", "y"}

\* str.lower() of a character
Lower(c) == CASE c = "N" -> "n" [] c = "E" -> "e" [] c = "F" -> "f" [] c = "O" -> "o"
              [] OTHER -> c

IsWordAt(text, i) == i >= 1 /\ i <= Len(text) /\ text[i] \in WordChars

\* \\b between the characters i - 1 and i
WordBoundary(text, i) == IsWordAt(text, i - 1) # IsWordAt(text, i)

\* (mutant) the pattern without its \\b anchors
MatchesWordAt_anywhere(text, i, word) ==
    /\ i + Len(word) - 1 <= Len(text)
    /\ \A k \in 1..Len(word) : Lower(text[i + k - 1]) = word[k]

\* \\bword\\b with re.IGNORECASE matches at position i
MatchesWordAt(text, i, word) ==
    /\ i + Len(word) - 1 <= Len(text)
    /\ \A k \in 1..Len(word) : Lower(text[i + k - 1]) = word[k]
    /\ WordBoundary(text, i)
    /\ WordBoundary(text, i + Len(word))

\* re.sub(r'\\bword\\b', replacement, text, flags=re.IGNORECASE), from position i
RECURSIVE SubWord(_, _, _, _)
SubWord(text, i, word, replacement) ==
    IF i > Len(text) THEN <<>>
    ELSE IF MatchesWordAt(text, i, word)
         THEN replacement \o SubWord(text, i + Len(word), word, replacement)
    ELSE <<text[i]>> \o SubWord(text, i + 1, word, replacement)

\* postprocessing.fix_common_ocr_errors
fix_common_ocr_errors(text) ==
    SubWord(SubWord(text, 1, <<"0", "n", "e">>, <<"O", "n", "e">>),
            1, <<"0", "f">>, <<"O", "f">>)

\* A text for the spell checker: the words text.split() gives, and whether the
\* text is these words joined by single spaces
SpellText(words, spacing) == [words |-> words, spacing |-> spacing]

\* the i-th word as recognised, and as corrected
Word(i) == [word |-> i, corrected |-> FALSE]

\* word.replace(stripped, correction)
Correction(w) == [w EXCEPT !.corrected = TRUE]

\* What the spell checker does with a word: "known" (in the dictionary),
\* "corrected" (spell.correction gives a word), "none" (it gives None), "raises"
WordOutcomes == {"known", "corrected", "none", "raises"}

\* the for loop of apply_spell_correction: an exception leaves the loop
RECURSIVE CorrectWords(_, _)
CorrectWords(words, outcomes) ==
    IF words = <<>> THEN [ok |-> TRUE, words |-> <<>>]
    ELSE IF Head(outcomes) = "raises" THEN [ok |-> FALSE, words |-> <<>>]
    ELSE LET rest == CorrectWords(Tail(words), Tail(outcomes))
             corrected_word == IF Head(outcomes) = "corrected"
                               THEN Correction(Head(words)) ELSE Head(words)
         IN  [ok |-> rest.ok, words |-> IF rest.ok THEN <<corrected_word>> \o rest.words
                                        ELSE <<>>]

\* postprocessing.apply_spell_correction: the text returned (it never raises)
apply_spell_correction(text, SPELLCHECKER_AVAILABLE, outcomes) ==
    IF ~SPELLCHECKER_AVAILABLE THEN text
    ELSE LET loop == CorrectWords(text.words, outcomes)
         IN  IF loop.ok THEN SpellText(loop.words, "single") ELSE text

---------------------------------------------------------------------------
(* The cleanup functions called alone                                       *)

MaxChars == 4

\* a space, a tab, both line-break characters, a letter and a quote to normalise
Chars == {" ", "\t", "\n", "\r", "a", Backtick}

ScenarioText ==
    <<"T", "h", "1", "s", " ", " ", "i", "s", "\r", "\n",
      "a", " ", " ", " ", "t", "e", "s", "t", ".", "\r", "\n">>

Texts == SeqsUpTo(Chars, MaxChars) \cup {ScenarioText}

\* the characters of the two patterns, in both cases, a digit and a space
OcrErrorChars == {"0", "n", "e", "f", "N", "1", " "}

OcrErrorScenario ==
    <<"i", " ", "r", "e", "a", "d", " ", "0", "n", "e", " ", "b", "o", "o", "k", " ",
      "0", "f", " ", "m", "a", "n", "y">>

\* the six glyphs of normalize_quotes, a straight quote and a letter
QuoteChars ==
    {LeftDoubleQuote, RightDoubleQuote, LeftSingleQuote, RightSingleQuote, Backtick,
     Acute, "\"", "a"}

QuoteTexts == SeqsUpTo(QuoteChars, MaxChars)

OcrErrorTexts == SeqsUpTo(OcrErrorChars, MaxChars) \cup {OcrErrorScenario}

\* the keyword defaults of clean_text
CleanDefaults ==
    [remove_extra_spaces |-> TRUE, fix_breaks |-> TRUE, remove_blanks |-> FALSE,
     normalize_quotes_mode |-> TRUE]

TextArgs(text, flags) == [text |-> text, flags |-> flags]

InitText ==
    /\ NoSession
    /\ PreInputs("none", NoImage, NoConfig, 0, <<>>)
    /\ \/ \E t \in Texts :
             \E c \in {"remove_extra_whitespace", "fix_line_breaks",
                       "remove_empty_lines"} :
                FnInputs(c, TextArgs(t, CleanDefaults))
       \/ \E t \in QuoteTexts :
             FnInputs("normalize_quotes", TextArgs(t, CleanDefaults))
       \/ \E t \in Texts, f \in [DOMAIN CleanDefaults -> BOOLEAN] :
             FnInputs("clean_text", TextArgs(t, f))
       \/ \E t \in OcrErrorTexts :
             FnInputs("fix_common_ocr_errors", TextArgs(t, CleanDefaults))
       \/ \E n \in 1..MaxWords, spacing \in {"single", "other"}, available \in BOOLEAN :
             \E outcomes \in [1..n -> WordOutcomes] :
                FnInputs("apply_spell_correction",
                         [text |-> SpellText([i \in 1..n |-> Word(i)], spacing),
                          available |-> available, outcomes |-> outcomes])

\* the caller applies the function to the text it got back
FnAgain(call, r) ==
    /\ fn_pc = "done"
    /\ fn_call = call
    /\ fn_pc' = "again"
    /\ fn_result' = r
    /\ UNCHANGED <<fn_call, fn_args, preVars, appVars>>

CallRemoveExtraWhitespace ==
    FnReturn("remove_extra_whitespace", remove_extra_whitespace(fn_args.text))

CallRemoveExtraWhitespaceAgain ==
    FnAgain("remove_extra_whitespace", remove_extra_whitespace(fn_result))

CallFixLineBreaks ==
    FnReturn("fix_line_breaks", fix_line_breaks(fn_args.text))

CallFixLineBreaksAgain ==
    FnAgain("fix_line_breaks", fix_line_breaks(fn_result))

CallRemoveEmptyLines ==
    FnReturn("remove_empty_lines", remove_empty_lines(fn_args.text))

CallNormalizeQuotes ==
    FnReturn("normalize_quotes", normalize_quotes(fn_args.text))

CallCleanText ==
    FnReturn("clean_text",
             clean_text(fn_args.text, fn_args.flags.remove_extra_spaces,
                        fn_args.flags.fix_breaks, fn_args.flags.remove_blanks,
                        fn_args.flags.normalize_quotes_mode))

CallFixCommonOcrErrors ==
    FnReturn("fix_common_ocr_errors", fix_common_ocr_errors(fn_args.text))

CallApplySpellCorrection ==
    FnReturn("apply_spell_correction",
             apply_spell_correction(fn_args.text, fn_args.available, fn_args.outcomes))

NextText ==
    \/ CallRemoveExtraWhitespace
    \/ CallRemoveExtraWhitespaceAgain
    \/ CallFixLineBreaks
    \/ CallFixLineBreaksAgain
    \/ CallRemoveEmptyLines
    \/ CallNormalizeQuotes
    \/ CallCleanText
    \/ CallFixCommonOcrErrors
    \/ CallApplySpellCorrection

SpecText == InitText /\ [][NextText]_vars

---------------------------------------------------------------------------
(* Export of batch results (utils/file_utils.py).  A text is a sequence of   *)
(* pieces, each piece a string of characters that the functions write or    *)
(* that a recognised text may hold; two equal sequences are equal strings.  *)

\* a file name: directory, stem and extension; number > 0 for f'File {i+1}'
Filename(dir, stem, ext) == [dir |-> dir, stem |-> stem, ext |-> ext, number |-> 0]

NoFilename == [dir |-> "", stem |-> "", ext |-> "", number |-> 0]

\* result.get('filename', f'File {i+1}') when the key is missing
DefaultFilename(i) == [dir |-> "", stem |-> "File", ext |-> "", number |-> i]

Piece(kind) == [kind |-> kind, filename |-> NoFilename]

\* the default separator, "\n" + "=" * 80 + "\n"
Separator == Piece("separator")

\* f"\n... FILE: {filename}\n"
FileHeader(filename) == [kind |-> "header", filename |-> filename]

\* "-" * 40 + "\n"
Rule == Piece("rule")

Newline == Piece("\n")

\* result.get('text', '[No text extracted]') when the key is missing
NoTextExtracted == Piece("[No text extracted]")

\* a result dict: `has` is the set of its keys
BatchResult(has, filename, text) ==
    [has |-> has,
     filename |-> IF "filename" \in has THEN filename ELSE NoFilename,
     text |-> IF "text" \in has THEN text ELSE <<>>]

\* one iteration of the loop of aggregate_batch_results (i counts from 1)
AggregateOne(result, i, include_separator) ==
    LET filename == IF "filename" \notin result.has THEN DefaultFilename(i)
                    ELSE result.filename
    IN  (IF include_separator /\ i > 1 THEN <<Separator>> ELSE <<>>)
        \o <<FileHeader(filename), Rule>>
        \o (IF "text" \notin result.has THEN <<NoTextExtracted>> ELSE result.text)
        \o <<Newline>>

RECURSIVE AggregateFrom(_, _, _)
AggregateFrom(results, i, include_separator) ==
    IF i > Len(results) THEN <<>>
    ELSE AggregateOne(results[i], i, include_separator)
         \o AggregateFrom(results, i + 1, include_separator)

\* file_utils.aggregate_batch_results with the default separator
aggregate_batch_results(results, include_separator) ==
    AggregateFrom(results, 1, include_separator)

\* Path(filename).stem + ".txt": the directory and the last extension are dropped
TxtFilename(filename) == [stem |-> filename.stem, suffix |-> ".txt"]

\* zf.writestr(txt_filename, text) for one result
ZipEntry(result) ==
    [name |-> TxtFilename(IF "filename" \notin result.has THEN Filename("", "unknown", "txt")
                          ELSE result.filename),
     text |-> IF "text" \notin result.has THEN <<>> ELSE result.text]

\* file_utils.create_batch_zip: (zip_path, None) with the entries written, in
\* order, or (None, error_msg) when anything raised
create_batch_zip(results, io) ==
    IF io = "error"
    THEN [ok |-> FALSE, entries |-> <<>>, error |-> "Failed to create batch ZIP"]
    ELSE [ok |-> TRUE,
          entries |-> [i \in 1..Len(results) |-> ZipEntry(results[i])],
          error |-> "none"]

\* ZipFile.namelist()
ZipNames(entries) == {entries[i].name : i \in 1..Len(entries)}

\* ZipFile.read(name): the entry written last under the name
ZipRead(entries, name) ==
    LET at == {i \in 1..Len(entries) : entries[i].name = name}
    IN  entries[CHOOSE i \in at : \A j \in at : j <= i].text

---------------------------------------------------------------------------
(* The export functions called alone                                        *)

MaxResults == 2

ExportFilenames ==
    {Filename("", "a", "png"), Filename("", "a", "jpg"), Filename("d", "a", "png"),
     Filename("", "b", "png")}

PlainTexts == {<<Piece("a")>>, <<Piece("b")>>}

\* a recognised text that holds what aggregate_batch_results writes between two
\* results
TextWithHeader(before, filename, after) ==
    before \o <<Newline, Separator, FileHeader(filename), Rule>> \o after

ExportTexts ==
    PlainTexts \cup {<<NoTextExtracted>>}
    \cup {TextWithHeader(<<Piece("a")>>, Filename("", "b", "png"), <<Piece("b")>>)}

BatchResults ==
    {BatchResult(has, f, t) :
        has \in SUBSET {"filename", "text"}, f \in ExportFilenames, t \in ExportTexts}

ResultLists == SeqsUpTo(BatchResults, MaxResults)

InitExport ==
    /\ NoSession
    /\ PreInputs("none", NoImage, NoConfig, 0, <<>>)
    /\ \/ \E l \in ResultLists, s \in BOOLEAN :
             FnInputs("aggregate_batch_results",
                      [batch_results |-> l, include_separator |-> s, io |-> "ok"])
       \/ \E l \in ResultLists, io \in {"ok", "error"} :
             FnInputs("create_batch_zip",
                      [batch_results |-> l, include_separator |-> TRUE, io |-> io])

CallAggregateBatchResults ==
    FnReturn("aggregate_batch_results",
             aggregate_batch_results(fn_args.batch_results, fn_args.include_separator))

CallCreateBatchZip ==
    FnReturn("create_batch_zip", create_batch_zip(fn_args.batch_results, fn_args.io))

NextExport ==
    \/ CallAggregateBatchResults
    \/ CallCreateBatchZip

SpecExport == InitExport /\ [][NextExport]_vars

---------------------------------------------------------------------------
(* app.process_single_image called alone (the tabs do not call it)          *)

\* preprocess_config: any choice of the four switches, the values at their defaults
SingleConfigs ==
    {SidebarConfig(g, d, t, k) : g \in BOOLEAN, d \in BOOLEAN, t \in BOOLEAN,
                                 k \in BOOLEAN}

InitSingle ==
    /\ PreInputs("none", NoImage, NoConfig, 0, <<>>)
    /\ FnInputs("process_single_image", <<>>)
    /\ NoSession

\* process_single_image(image, preprocess_config, selected_language): the
\* session state is assigned statement by statement inside the try block
ProcessSingleImage ==
    /\ fn_call = "process_single_image"
    /\ \E src \in 1..MaxUploads, mode \in AppModes, preprocess_config \in SingleConfigs,
          engine \in Engines :
       \E lines \in LinesFor(preprocess_config) :
       \E pre \in {preprocess_image(SourceImage(mode, src), preprocess_config, lines)} :
       \E ocr \in {extract_text(pre.img, DEFAULT_LANGUAGE, ConfigOmitted, engine)} :
          /\ ss_preprocessed_image' = IF pre.ok THEN pre.img ELSE ss_preprocessed_image
          /\ ss_extracted_text' = IF pre.ok /\ ocr.ok THEN clean_text_call(ocr.text)
                                  ELSE ss_extracted_text
          /\ attempts' =
                <<Attempt("single", src, src,
                          IF ~pre.ok THEN UnitFail(<<"preprocess_image">>, "preprocess_image")
                          ELSE IF ~ocr.ok
                          THEN UnitFail(<<"preprocess_image", "extract_text">>, ocr.error)
                          ELSE UnitOk(clean_text_call(ocr.text), pre.img,
                                      <<"preprocess_image", "extract_text", "clean_text">>,
                                      FALSE))>>
    /\ UNCHANGED <<preVars, fnVars, active_tab, opt, pc, ss_batch_results, ss_pdf_images,
                   tab1Vars, tab2Vars, tab3Vars>>

NextSingle == ProcessSingleImage

SpecSingle == InitSingle /\ [][NextSingle]_vars

---------------------------------------------------------------------------
(* Claims about the preprocessing functions (checked under SpecPre)         *)

PreDone(call) == pre_pc = "done" /\ pre_call = call

StepOrder == <<"grayscale", "denoise", "deskew", "threshold">>

\* whether the caller's config enables a step (an absent key, or no config at
\* all, leaves the step at its default)
StepEnabledIn(config, step) ==
    LET key == CASE step = "grayscale" -> "grayscale"
                 [] step = "denoise" -> "denoise_enabled"
                 [] step = "deskew" -> "deskew_enabled"
                 [] step = "threshold" -> "threshold_enabled"
    IN  IF config # NoConfig /\ key \in DOMAIN config THEN config[key]
        ELSE step # "deskew"

EnabledSteps(config) ==
    LET Test(step) == StepEnabledIn(config, step)
    IN  SelectSeq(StepOrder, Test)

\* C1: preprocess_image calls the enabled steps in the order grayscale,
\* denoise, deskew, threshold: the calls made are the enabled steps in that
\* order (all of them when the function returns, those up to the raising step
\* when a step raises), each call receives the output of the call before it
\* (the source image for the first), and no disabled step is called.
C1_FixedOrder ==
    PreDone("preprocess_image") =>
        LET tr == pre_result.trace
            en == EnabledSteps(pre_config)
            n == Len(tr)
        IN  /\ n <= Len(en)
            /\ \A i \in 1..n : tr[i].step = en[i]
            /\ \A i \in 1..n :
                  tr[i].input = IF i = 1 THEN pre_image ELSE tr[i - 1].output
            /\ \A i \in 1..(n - 1) : tr[i].ok
            /\ pre_result.ok =>
                  /\ n = Len(en)
                  /\ pre_result.img = IF n = 0 THEN pre_image ELSE tr[n].output
            /\ ~pre_result.ok => n >= 1 /\ ~tr[n].ok

\* C1 witness: grayscale and threshold off, denoise and deskew on: both ran,
\* in that order, each changed the image it was given, the function returned
C1_Witness ==
    /\ PreDone("preprocess_image")
    /\ pre_result.ok
    /\ Len(pre_result.trace) = 2
    /\ EnabledSteps(pre_config) = <<"denoise", "deskew">>
    /\ pre_image.mode = "RGB"
    /\ \A i \in 1..2 : pre_result.trace[i].output # pre_result.trace[i].input

AllStepsOff(config) ==
    /\ config # NoConfig
    /\ {"grayscale", "denoise_enabled", "deskew_enabled", "threshold_enabled"}
          \subseteq DOMAIN config
    /\ ~config["grayscale"]
    /\ ~config["denoise_enabled"]
    /\ ~config["deskew_enabled"]
    /\ ~config["threshold_enabled"]

\* C2: with grayscale, denoise_enabled, deskew_enabled and threshold_enabled
\* all false, preprocess_image returns the input image (same mode, same
\* pixels) and calls no step, whatever the numeric options are.
C2_AllDisabledIdentity ==
    (PreDone("preprocess_image") /\ AllStepsOff(pre_config)) =>
        /\ pre_result.ok
        /\ pre_result.img = pre_image
        /\ pre_result.trace = <<>>

\* C2 witness: all steps off with out-of-range numeric options, colour image
C2_Witness ==
    /\ PreDone("preprocess_image")
    /\ AllStepsOff(pre_config)
    /\ ConfigKeys \subseteq DOMAIN pre_config
    /\ pre_config["denoise_strength"] = 31
    /\ pre_config["threshold_value"] = 256
    /\ pre_config["max_angle"] = -1
    /\ pre_image.mode = "RGBA"
    /\ pre_result.img = pre_image

ValidUsed(step, used) ==
    CASE step = "denoise" -> used \in 1..30
      [] step = "threshold" -> used \in 0..255
      [] step = "deskew" -> used \in 0..45
      [] OTHER -> TRUE

\* C7 (as claimed): every numeric option is clamped before use: the strength
\* the denoise filter gets lies in 1..30, the value cv2.threshold gets lies in
\* 0..255, the max angle the deskew guard compares with lies in 0..45; and a
\* disabled step is not called.
C7_ValuesClamped ==
    PreDone("preprocess_image") =>
        \A i \in 1..Len(pre_result.trace) :
            LET e == pre_result.trace[i]
            IN  /\ StepEnabledIn(pre_config, e.step)
                /\ e.used # None => ValidUsed(e.step, e.used)

\* the angle estimate_skew_angle gives for the image deskew is called on
EstimatedAngle2(image, lines) == estimate_skew_angle(image, lines).angle2

Rotated(before, after) ==
    /\ Len(after.ops) > 0
    /\ after.ops[Len(after.ops)].op = "warpAffine"
    /\ after # before

\* C8: when |angle| > max_angle deskew returns the image it was given, and it
\* rotates only when |angle| <= max_angle; in a direct call and as a step of
\* preprocess_image.
C8_DeskewGuard ==
    /\ PreDone("deskew") =>
          LET a == EstimatedAngle2(pre_image, pre_lines)
          IN  /\ Abs(a) > 2 * pre_arg => (pre_result.ok /\ pre_result.img = pre_image)
              /\ (pre_result.ok /\ Rotated(pre_image, pre_result.img))
                    => Abs(a) <= 2 * pre_arg
    /\ PreDone("preprocess_image") =>
          \A i \in 1..Len(pre_result.trace) :
              LET e == pre_result.trace[i]
                  a == EstimatedAngle2(e.input, pre_lines)
              IN  e.step = "deskew" =>
                    /\ Abs(a) > 2 * e.param => (e.ok /\ e.output = e.input)
                    /\ (e.ok /\ Rotated(e.input, e.output)) => Abs(a) <= 2 * e.param

\* C8 witness: a negative skew beyond max_angle, image returned as given
C8_Witness ==
    /\ PreDone("deskew")
    /\ pre_arg = 10
    /\ EstimatedAngle2(pre_image, pre_lines) < -20
    /\ pre_result.ok
    /\ pre_result.img = pre_image

\* C8 witness of the other branch: a skew within max_angle is rotated
C8_WitnessRotated ==
    /\ PreDone("deskew")
    /\ pre_arg = 10
    /\ EstimatedAngle2(pre_image, pre_lines) = 2
    /\ pre_result.ok
    /\ Rotated(pre_image, pre_result.img)

\* the k-th smallest of the half-degree angles of `lines`
KthSmallest2(lines, k) ==
    LET n == Len(lines)
        a(i) == 2 * (lines[i] - 90)
    IN  CHOOSE v \in {a(i) : i \in 1..n} :
            /\ Cardinality({i \in 1..n : a(i) <= v}) >= k
            /\ Cardinality({i \in 1..n : a(i) >= v}) >= n - k + 1

\* the median of the per-line angles (theta - 90), in half degrees
MedianOfLines2(lines) ==
    LET n == Len(lines)
    IN  IF n % 2 = 1 THEN KthSmallest2(lines, (n + 1) \div 2)
        ELSE (KthSmallest2(lines, n \div 2) + KthSmallest2(lines, n \div 2 + 1)) \div 2

\* C9: estimate_skew_angle returns 0 when no line is detected, otherwise the
\* median of the per-line angles (theta - 90) after one wrap by 90 degrees
\* (down when above 45, up when below -45), and the result lies in [-45, 45].
C9_SkewAngle ==
    PreDone("estimate_skew_angle") =>
        /\ pre_result.ok
        /\ pre_lines = <<>> => pre_result.angle2 = 0
        /\ pre_lines # <<>> =>
              LET m == MedianOfLines2(pre_lines)
              IN  /\ pre_result.angle2 =
                        (IF m > 90 THEN m - 180 ELSE IF m < -90 THEN m + 180 ELSE m)
                  /\ pre_result.angle2 \in -90..90

\* C9 witness: two lines whose median, -67.5 degrees, is wrapped to 22.5
C9_Witness ==
    /\ PreDone("estimate_skew_angle")
    /\ Len(pre_lines) = 2
    /\ MedianOfLines2(pre_lines) = -135
    /\ pre_result.angle2 = 45

IsBinary(image) ==
    /\ Len(image.ops) > 0
    /\ image.ops[Len(image.ops)].op \in {"threshold", "otsu"}

\* C10 (as claimed): apply_threshold succeeds for every image and threshold
\* value (None: Otsu) and returns a single-channel image whose pixels take
\* two values.
C10_ThresholdBinary ==
    PreDone("apply_threshold") =>
        /\ pre_result.ok
        /\ pre_result.img.mode = "L"
        /\ IsBinary(pre_result.img)

---------------------------------------------------------------------------
(* Claims about the orchestrator (checked under Spec)                       *)

OkAttempts == SelectSeq(attempts, LAMBDA a : a.ok)
FailedAttempts == SelectSeq(attempts, LAMBDA a : ~a.ok)
UnitsOf(atts) == [k \in 1..Len(atts) |-> atts[k].unit]
FilenamesOf(list) == [k \in 1..Len(list) |-> list[k].filename]

\* the errors of the processing loop: what follows the load errors
ProcessingErrors ==
    SubSeq(errors, Len(valid_files) - Len(loaded_images) + 1, Len(errors))

\* the loop is at unit i of units: the units before i were attempted once each
\* and in order, the successes are in results in that order, the failures
\* are reported with their identifier in that order
LoopProgress(units, i, results, reported) ==
    /\ i <= Len(units)
    /\ Len(attempts) = i
    /\ \A k \in 1..i : attempts[k].src = units[k]
    /\ FilenamesOf(results) = UnitsOf(OkAttempts)
    /\ reported = UnitsOf(FailedAttempts)

\* C3: in the batch loop and in the PDF page loop a unit that fails is
\* recorded with its identifier and the loop goes on: every loaded unit is
\* attempted exactly once, in input order, whatever happened to the units
\* before it, and the successful results are appended in input order.
C3_FailureRecordedLoopContinues ==
    /\ active_tab = "batch" =>
          /\ LoopProgress([k \in 1..Len(loaded_images) |-> loaded_images[k].image.src],
                          idx, batch_results, FilenamesOf(ProcessingErrors))
          /\ pc = "idle" => idx = Len(loaded_images)
    /\ (active_tab = "pdf" /\ pc = "pdf_loop") =>
          LoopProgress([k \in 1..Len(ss_pdf_images) |-> ss_pdf_images[k].src],
                       page_idx, pdf_results,
                       [k \in 1..Len(pdf_shown_errors) |-> pdf_shown_errors[k].page])

\* a finished batch of three loaded units whose first unit failed
C3_Witness ==
    /\ active_tab = "batch"
    /\ pc = "idle"
    /\ Len(loaded_images) = 3
    /\ Len(attempts) = 3
    /\ ~attempts[1].ok
    /\ attempts[2].ok
    /\ attempts[3].ok
    /\ FilenamesOf(ss_batch_results) = <<2, 3>>

BatchFinished == active_tab = "batch" /\ pc = "idle" /\ valid_files # <<>>

\* the text the orchestrator keeps for an attempt: the cleanup calls made
\* after recognition, without the spell correction when that one failed
KeptText(a) ==
    LET post == SubSeq(a.calls, 3, Len(a.calls))
    IN  [src |-> a.src,
         ops |-> IF a.spell_failed
                 THEN SelectSeq(post, LAMBDA c : c # "apply_spell_correction")
                 ELSE post]

\* C4 (as stated): after a batch run the result list has one entry per input
\* unit, at the unit's input position, its text or its error.
C4_OneEntryPerUnit ==
    BatchFinished =>
        /\ Len(ss_batch_results) = Len(loaded_images)
        /\ \A k \in 1..Len(loaded_images) :
              ss_batch_results[k].filename = loaded_images[k].filename

\* C4 (amended): after a batch run the result list holds the texts of the
\* units that succeeded, in input order, and nothing else; a unit that failed
\* has its entry in the separate errors list, with its filename, in input order.
C4_ResultsAndErrorsApart ==
    BatchFinished =>
        /\ ss_batch_results =
              [k \in 1..Len(OkAttempts) |->
                  [filename |-> OkAttempts[k].unit, text |-> KeptText(OkAttempts[k])]]
        /\ ProcessingErrors =
              [k \in 1..Len(FailedAttempts) |->
                  [filename |-> FailedAttempts[k].unit,
                   error |-> IF Len(FailedAttempts[k].calls) = 1
                             THEN "preprocess_image" ELSE "RuntimeError"]]
        /\ Len(ss_batch_results) + Len(ProcessingErrors) = Len(loaded_images)

\* three units, the second raises during recognition
C4_Witness ==
    /\ BatchFinished
    /\ Len(loaded_images) = 3
    /\ Len(attempts) = 3
    /\ attempts[2].calls = <<"preprocess_image", "extract_text">>
    /\ ~attempts[2].ok
    /\ FilenamesOf(ss_batch_results) = <<1, 3>>
    /\ errors = <<[filename |-> 2, error |-> "RuntimeError"]>>

\* C5: a unit of any kind that is processed to the end went through
\* preprocessing, recognition, cleanup, fix_common_ocr_errors when enabled
\* and apply_spell_correction when enabled, in that order.
C5_SameStepsEveryKind ==
    \A k \in 1..Len(attempts) :
        attempts[k].ok =>
            attempts[k].calls =
                <<"preprocess_image", "extract_text", "clean_text">>
                \o (IF opt.fix_ocr_errors THEN <<"fix_common_ocr_errors">> ELSE <<>>)
                \o (IF opt.spellcheck_enabled THEN <<"apply_spell_correction">> ELSE <<>>)

RecognisedAndCleaned(a) == Len(a.calls) >= 3 /\ a.calls[3] = "clean_text"

\* C6: when recognition and cleanup of a unit succeeded its text is kept,
\* in session_state.extracted_text (tab 1) or in batch_results (tab 2), even
\* if spell correction or the bounding box annotation failed afterwards.
C6_EnhancementKeepsText ==
    /\ (active_tab = "single" /\ attempts # <<>> /\ RecognisedAndCleaned(attempts[1])) =>
          ss_extracted_text = KeptText(attempts[1])
    /\ active_tab = "batch" =>
          \A k \in 1..Len(attempts) :
              RecognisedAndCleaned(attempts[k]) =>
                  \E j \in 1..Len(batch_results) :
                      batch_results[j] = [filename |-> attempts[k].unit,
                                          text |-> KeptText(attempts[k])]

\* tab 1: spell correction failed, then the annotation raised, the text is stored
C6_Witness ==
    /\ active_tab = "single"
    /\ attempts # <<>>
    /\ attempts[1].spell_failed
    /\ t1_shown.result = "success"
    /\ t1_shown.boxes = "warning"
    /\ ss_extracted_text.src = attempts[1].src
    /\ ss_extracted_text.ops # <<>>

---------------------------------------------------------------------------
(* Further claims about the preprocessing functions (checked under SpecPre) *)

\* C11: denoise returns an image with as many channels as the image it was
\* given, for every strength.
C11_DenoiseKeepsChannels ==
    (PreDone("denoise") /\ pre_result.ok) =>
        Channels(pre_result.img) = Channels(pre_image)

---------------------------------------------------------------------------
(* Claims about the recognition functions (checked under SpecOcr)           *)

FnDone(call) == fn_pc = "done" /\ fn_call = call

RecognitionEntryPoints ==
    {"extract_text", "extract_text_with_confidence", "extract_text_with_bounding_boxes"}

\* C12: every recognition entry point rejects an argument that is no image
\* with an error other than the engine-failure error, and without calling
\* the engine.
C12_NonImageRejected ==
    (fn_pc = "done" /\ fn_call \in RecognitionEntryPoints /\ ~IsImage(fn_args.image)) =>
        /\ ~fn_result.ok
        /\ fn_result.error # "RuntimeError"
        /\ fn_result.engine_calls = <<>>

\* C13: the lang extract_text hands to the engine is the caller's language,
\* unless the caller's own config dict names one.
C13_LanguagePassed ==
    (FnDone("extract_text") /\ fn_result.engine_calls # <<>>) =>
        fn_result.engine_calls[1].lang =
            IF fn_args.config.kind = "dict" /\ "lang" \in DOMAIN fn_args.config.value
            THEN fn_args.config.value["lang"]
            ELSE fn_args.language

MeasuredConfs == SelectSeq([i \in 1..Len(fn_args.data) |-> fn_args.data[i].conf],
                           LAMBDA c : c # -1)

\* C14: the average confidence is the mean of every confidence other than
\* -1, zeros included, and 0 when there is none.
C14_MeanOfMeasured ==
    (FnDone("extract_text_with_confidence") /\ fn_result.ok) =>
        IF MeasuredConfs = <<>>
        THEN fn_result.confidence[1] = 0
        ELSE fn_result.confidence[1] * Len(MeasuredConfs)
                 = SumSeq(MeasuredConfs) * fn_result.confidence[2]

\* what extract_text raises for the same call when the engine fails otherwise
GenericFailure == extract_text(fn_args.image, fn_args.language, fn_args.config, "error")

EngineNotFound ==
    FnDone("extract_text") /\ IsImage(fn_args.image) /\ fn_args.engine = "not_found"

\* C15 (as stated): engine-not-found and the generic recognition failure are
\* errors of different kinds.
C15_DifferentErrorKinds ==
    EngineNotFound => fn_result.error # GenericFailure.error

\* C15 (amended): engine-not-found and the generic recognition failure are
\* both raised as RuntimeError; they differ in the message and in the
\* exception they are chained to, and engine-not-found never carries the
\* generic message.
C15_DistinguishedByMessage ==
    EngineNotFound =>
        /\ ~fn_result.ok
        /\ fn_result.error = "RuntimeError"
        /\ GenericFailure.error = "RuntimeError"
        /\ fn_result.message # GenericFailure.message
        /\ fn_result.cause # GenericFailure.cause

C15_Witness ==
    /\ EngineNotFound
    /\ fn_result.message = "Tesseract OCR is not installed or not found"
    /\ fn_result.cause = "TesseractNotFoundError"

GrayRangeAtLeast(gray, n) ==
    \E i, j \in 1..Len(gray) : gray[i] - gray[j] >= n

\* C16: validate_image_for_ocr never raises; it accepts, with no reason,
\* exactly the images at least 20 wide and 20 high whose gray values span at
\* least 10; a 100x100 image of one colour is rejected as blank.
C16_ValidateImage ==
    FnDone("validate_image_for_ocr") =>
        LET image == fn_args.image
        IN  /\ ~fn_result.raised
            /\ fn_result.ok <=>
                  /\ IsImage(image)
                  /\ image.width >= 20
                  /\ image.height >= 20
                  /\ GrayRangeAtLeast(image.gray, 10)
            /\ fn_result.ok <=> fn_result.reason = "None"
            /\ (IsImage(image) /\ image.width = 100 /\ image.height = 100
                /\ Len(image.gray) = 1) =>
                  fn_result.reason = "Image appears to be blank or nearly uniform"

C16_Witness ==
    /\ FnDone("validate_image_for_ocr")
    /\ fn_args.image.width = 100
    /\ fn_args.image.height = 100
    /\ fn_args.image.gray = <<255>>
    /\ ~fn_result.ok
    /\ fn_result.reason = "Image appears to be blank or nearly uniform"

---------------------------------------------------------------------------
(* Claims about the cleanup functions (checked under SpecText)              *)

FnAgainDone(call) == fn_pc = "again" /\ fn_call = call

\* the number of lines of a text: one more than its line feeds
NumLines(text) == Len(SelectSeq(text, LAMBDA c : c = "\n")) + 1

\* C17: remove_extra_whitespace is idempotent (for every text over spaces, tabs,
\* newlines and letters, a second application returns the text the first one
\* returned) and never increases the number of lines.
C17_WhitespaceIdempotent ==
    /\ FnDone("remove_extra_whitespace")
          => NumLines(fn_result) <= NumLines(fn_args.text)
    /\ (FnAgainDone("remove_extra_whitespace")
        /\ \A i \in 1..Len(fn_args.text) : fn_args.text[i] \in {" ", "\t", "\n", "a"})
          => fn_result = remove_extra_whitespace(fn_args.text)

\* C18: fix_line_breaks is idempotent and its output contains no CR character,
\* for every input text: a second application returns the text of the first.
C18_LineBreaksIdempotent ==
    /\ FnDone("fix_line_breaks")
          => \A i \in 1..Len(fn_result) : fn_result[i] # "\r"
    /\ FnAgainDone("fix_line_breaks")
          => /\ fn_result = fix_line_breaks(fn_args.text)
             /\ \A i \in 1..Len(fn_result) : fn_result[i] # "\r"

\* a text with a lone CR, a CR before a CRLF, has been fixed twice
C18_Witness ==
    /\ FnAgainDone("fix_line_breaks")
    /\ fn_args.text = <<"\r", "\r", "\n", "a">>
    /\ fn_result = <<"\n", "\n", "a">>

ScenarioCleaned ==
    <<"T", "h", "1", "s", " ", "i", "s", "\n", "a", " ", "t", "e", "s", "t", ".">>

\* C19: clean_text with fix_breaks and remove_extra_spaces enabled (the other
\* flags at their defaults) maps "Th1s  is\r\na   test.\r\n" to exactly
\* "Th1s is\na test.", the final line ending stripped.
C19_ScenarioCleaned ==
    (/\ FnDone("clean_text")
     /\ fn_args.text = ScenarioText
     /\ fn_args.flags = CleanDefaults)
       => fn_result.text = ScenarioCleaned

Composed(text, flags) ==
    LET quoted == IF flags.normalize_quotes_mode THEN normalize_quotes(text) ELSE text
        broken == IF flags.fix_breaks THEN fix_line_breaks(quoted) ELSE quoted
        spaced == IF flags.remove_extra_spaces THEN remove_extra_whitespace(broken)
                  ELSE broken
    IN  IF flags.remove_blanks THEN remove_empty_lines(spaced) ELSE spaced

StepFlag ==
    [normalize_quotes |-> "normalize_quotes_mode", fix_line_breaks |-> "fix_breaks",
     remove_extra_whitespace |-> "remove_extra_spaces",
     remove_empty_lines |-> "remove_blanks"]

CleanOrder ==
    <<"normalize_quotes", "fix_line_breaks", "remove_extra_whitespace",
      "remove_empty_lines">>

\* C20: clean_text equals the composition of its enabled steps in the fixed
\* order normalize_quotes, fix_line_breaks, remove_extra_whitespace,
\* remove_empty_lines: the steps it called are exactly those whose own flag is
\* set, in that order, and the text is what they give one after the other.
C20_ComposedInOrder ==
    FnDone("clean_text") =>
        /\ fn_result.text = Composed(fn_args.text, fn_args.flags)
        /\ fn_result.trace =
              SelectSeq(CleanOrder, LAMBDA s : fn_args.flags[StepFlag[s]])

\* a text on which the order of the line-break and the whitespace step shows,
\* cleaned with every step but the last
C20_Witness ==
    /\ FnDone("clean_text")
    /\ fn_args.text = <<"a", "\r", " ", Backtick>>
    /\ fn_args.flags = CleanDefaults
    /\ fn_result.text = <<"a", "\n", "'">>
    /\ fn_result.trace = <<"normalize_quotes", "fix_line_breaks", "remove_extra_whitespace">>

AllFlagsOff == [f \in DOMAIN CleanDefaults |-> FALSE]

\* C21: clean_text with all four flags off returns its input text unchanged,
\* for every string input, and calls no step.
C21_AllOffUnchanged ==
    (FnDone("clean_text") /\ fn_args.flags = AllFlagsOff)
       => /\ fn_result.text = fn_args.text
          /\ fn_result.trace = <<>>

\* a text every step would change, cleaned with all four flags off
C21_Witness ==
    /\ FnDone("clean_text")
    /\ fn_args.flags = AllFlagsOff
    /\ fn_args.text = <<" ", "\r", "\n", Backtick>>
    /\ fn_result.text = <<" ", "\r", "\n", Backtick>>

\* the positions where a whole word equal to `word`, whatever its case, starts:
\* the character before and the character after are not letters, digits or "_"
WholeWordStarts(text, word) ==
    {i \in 1..Len(text) :
        /\ i + Len(word) - 1 <= Len(text)
        /\ \A k \in 1..Len(word) : Lower(text[i + k - 1]) = word[k]
        /\ (i = 1 \/ text[i - 1] \notin WordChars)
        /\ (i + Len(word) > Len(text) \/ text[i + Len(word)] \notin WordChars)}

\* what the claim expects at position i of the text
ExpectedOcrFix(text, i) ==
    LET covering(word) == {j \in WholeWordStarts(text, word) : j <= i /\ i < j + Len(word)}
    IN  IF covering(<<"0", "n", "e">>) # {}
        THEN <<"O", "n", "e">>[i - (CHOOSE j \in covering(<<"0", "n", "e">>) : TRUE) + 1]
        ELSE IF covering(<<"0", "f">>) # {}
        THEN <<"O", "f">>[i - (CHOOSE j \in covering(<<"0", "f">>) : TRUE) + 1]
        ELSE text[i]

OcrErrorFixed ==
    <<"i", " ", "r", "e", "a", "d", " ", "O", "n", "e", " ", "b", "o", "o", "k", " ",
      "O", "f", " ", "m", "a", "n", "y">>

\* C22: fix_common_ocr_errors replaces every whole-word, case-insensitive
\* occurrence of '0ne' by 'One' and of '0f' by 'Of' and changes nothing else (an
\* occurrence inside a longer token is left as it is), and "i read 0ne book 0f
\* many" becomes "i read One book Of many".
C22_WholeWordsOnly ==
    FnDone("fix_common_ocr_errors") =>
        /\ Len(fn_result) = Len(fn_args.text)
        /\ \A i \in 1..Len(fn_args.text) : fn_result[i] = ExpectedOcrFix(fn_args.text, i)
        /\ fn_args.text = OcrErrorScenario => fn_result = OcrErrorFixed

\* the scenario text has been fixed
C22_Witness ==
    /\ FnDone("fix_common_ocr_errors")
    /\ fn_args.text = OcrErrorScenario
    /\ fn_result = OcrErrorFixed

\* C23: apply_spell_correction degrades per token: when the spellchecker is
\* unavailable the text is returned unchanged, and when the correction of one
\* token raises, only that token falls back to its original form while the
\* corrections of the other tokens are kept.
C23_PerTokenFallback ==
    FnDone("apply_spell_correction") =>
        /\ ~fn_args.available => fn_result = fn_args.text
        /\ fn_args.available =>
              /\ Len(fn_result.words) = Len(fn_args.text.words)
              /\ \A i \in 1..Len(fn_args.text.words) :
                    fn_result.words[i] = IF fn_args.outcomes[i] = "corrected"
                                         THEN Correction(fn_args.text.words[i])
                                         ELSE fn_args.text.words[i]

\* the ASCII equivalent of a character
AsciiQuote(c) ==
    IF c \in {LeftDoubleQuote, RightDoubleQuote} THEN "\""
    ELSE IF c \in {LeftSingleQuote, RightSingleQuote, Backtick, Acute} THEN "'"
    ELSE c

\* C24: normalize_quotes maps every typographic quote glyph to its ASCII
\* equivalent: the curly double quotes become '"', the curly single quotes,
\* the backtick and the acute accent become "'", every other character is left
\* unchanged, and the output contains none of the six glyphs.
C24_GlyphsToAscii ==
    FnDone("normalize_quotes") =>
        /\ Len(fn_result) = Len(fn_args.text)
        /\ \A i \in 1..Len(fn_result) : fn_result[i] = AsciiQuote(fn_args.text[i])

---------------------------------------------------------------------------
(* Claims about the export functions (checked under SpecExport)             *)

\* C25: aggregating batch results is reversible: two different result lists
\* never produce the same aggregate (also when a text holds the header and the
\* separator, or a result lacks a text), so that the identifiers and texts can
\* be recovered from it.
C25_AggregateReversible ==
    FnDone("aggregate_batch_results") =>
        \A other \in ResultLists :
            other # fn_args.batch_results
               => aggregate_batch_results(other, fn_args.include_separator) # fn_result

HasFilenames(results) ==
    \A i \in 1..Len(results) : "filename" \in results[i].has

\* C26: create_batch_zip produces an archive with exactly one text entry per
\* result identifier, named by the identifier's stem plus '.txt' and holding
\* that result's text; results with distinct identifiers (also when they differ
\* only in extension or directory) have distinct entries that can be read apart.
C26_OneEntryPerIdentifier ==
    (/\ FnDone("create_batch_zip")
     /\ fn_result.ok
     /\ HasFilenames(fn_args.batch_results)
     /\ \A i, j \in 1..Len(fn_args.batch_results) :
           i # j => fn_args.batch_results[i].filename # fn_args.batch_results[j].filename)
       => /\ Cardinality(ZipNames(fn_result.entries)) = Len(fn_args.batch_results)
          /\ \A i \in 1..Len(fn_args.batch_results) :
                LET r == fn_args.batch_results[i]
                IN  ZipRead(fn_result.entries, TxtFilename(r.filename))
                       = (IF "text" \in r.has THEN r.text ELSE <<>>)

---------------------------------------------------------------------------
(* Further claims about the orchestrator (checked under Spec)               *)

\* a batch run has completed: the loop is over and its list has been stored
BatchRunCompleted == Idle("batch") /\ valid_files # <<>>

\* how many entries of a list carry the file name
EntriesOf(list, name) == Len(SelectSeq(list, LAMBDA entry : entry.filename = name))

\* C27: after a batch run completes, every file accepted by
\* validate_batch_files is accounted for exactly once: it is either in
\* batch_results or in the errors list, never in both and never in neither, and
\* session_state.batch_results is the list of this run, not the previous run's
\* list with this one appended.
C27_EveryFileAccounted ==
    BatchRunCompleted =>
        /\ \A k \in 1..Len(valid_files) :
              EntriesOf(batch_results, valid_files[k].name)
                 + EntriesOf(errors, valid_files[k].name) = 1
        /\ Len(batch_results) + Len(errors) = Len(valid_files)
        /\ ss_batch_results = batch_results

\* a completed run of three files: one could not be loaded, one failed in
\* processing, one gave a text
C27_Witness ==
    /\ BatchRunCompleted
    /\ Len(valid_files) = 3
    /\ Len(ss_batch_results) = 1
    /\ \E i, j \in 1..Len(errors) :
          errors[i].error = "load_image" /\ errors[j].error # "load_image"

\* C28: in the PDF flow, the identifier page_NNNN attached to the i-th converted
\* page is the first page used at conversion time plus i, that is the number
\* the page has in the PDF, whatever the user did between 'Convert PDF to
\* Text' and 'Extract Text from Pages'.
C28_PageIdentifier ==
    \A k \in 1..Len(attempts) :
        attempts[k].kind = "pdf" => attempts[k].unit = PageOf(attempts[k].src)

\* C29: in the PDF flow, session_state.pdf_images only ever holds the page
\* images of the most recent conversion request for the PDF currently
\* uploaded: nothing after a conversion that failed, and no image of another
\* PDF.
C29_NoStaleImages ==
    active_tab = "pdf" =>
        /\ pdf_message = "error" => ss_pdf_images = <<>>
        /\ \A k \in 1..Len(ss_pdf_images) : PdfOf(ss_pdf_images[k].src) = pdf_file

---------------------------------------------------------------------------
(* Claims about process_single_image (checked under SpecSingle)             *)

\* C30: in the single-image flow, session_state.extracted_text and
\* session_state.preprocessed_image always come from the same extraction run:
\* they are written together, after preprocessing, recognition and cleanup all
\* succeeded, so both are unset or both are set and of the same image, and the
\* last run, if it failed, did not write the image it preprocessed.
C30_SameRun ==
    /\ (ss_extracted_text = NoText) <=> (ss_preprocessed_image = NoImage)
    /\ ss_extracted_text # NoText => ss_extracted_text.src = ss_preprocessed_image.src

=============================================================================
